---- MODULE Spec2Model ----
(***************************************************************************)
(* A model of the smooth-gradient rendering core: layer resolution, the    *)
(* CPU compositor, the WebGL capability check and renderer, the framework  *)
(* render effect and the blue-noise cache.                                 *)
(*                                                                         *)
(* Numbers.  The program computes in IEEE doubles.  The model computes in  *)
(* fixed point: a value v of the unit interval (a color channel, an alpha, *)
(* a stop position, an opacity, a grain amount) is the integer v * ONE, a  *)
(* design-space length is the integer v * CU, and an sRGB level is the     *)
(* integer v * LSB.  A product of two unit values is Mul(a, b), which      *)
(* rounds down.  An optional field of a JavaScript object is a sequence:   *)
(* <<>> when the field is undefined, <<v>> when it holds v.  A color       *)
(* string is the sequence of its characters.                               *)
(***************************************************************************)
EXTENDS Integers, Sequences, FiniteSets, TLC

\* fixed-point unit of the unit interval: 1.0 is ONE
ONE == 2^10
\* fixed-point unit of design-space lengths: one design pixel is CU
CU == 2^4
\* fixed-point unit of sRGB levels: one 8-bit level is LSB
LSB == 2^6

None == <<>>
Some(v) == <<v>>
\* JavaScript  x ?? d
OrElse(x, d) == IF x = None THEN d ELSE x[1]
\* An array built element by element, as a sequence
Array(f) == f \o <<>>
\* A local constant,  const name = value,  computed once and used in the body
With(value, Body(_)) == Body(value)

Min2(a, b) == IF a <= b THEN a ELSE b
Max2(a, b) == IF a >= b THEN a ELSE b
Abs(a) == IF a < 0 THEN 0 - a ELSE a
Mul(a, b) == (a * b) \div ONE

\* math.ts clamp: Math.max(min, Math.min(max, value))
clamp(value, lo, hi) == Max2(lo, Min2(hi, value))

\* color.ts lerp: start + (end - start) * t
lerp(start, end, t) == start + Mul(end - start, t)

(***************************************************************************)
(* Color parsing (color.ts).                                               *)
(***************************************************************************)
HexLower == <<"0","1","2","3","4","5","6","7","8","9","a","b","c","d","e","f">>
HexUpper == <<"0","1","2","3","4","5","6","7","8","9","A","B","C","D","E","F">>
IsHexChar(c) == \E i \in 1..16 : HexLower[i] = c \/ HexUpper[i] = c
HexVal(c) == (CHOOSE i \in 1..16 : HexLower[i] = c \/ HexUpper[i] = c) - 1

IsSpace(c) == c = " "

RECURSIVE TrimLeft(_)
TrimLeft(s) == IF s # <<>> /\ IsSpace(Head(s)) THEN TrimLeft(Tail(s)) ELSE s
RECURSIVE TrimRight(_)
TrimRight(s) ==
  IF s # <<>> /\ IsSpace(s[Len(s)]) THEN TrimRight(SubSeq(s, 1, Len(s) - 1)) ELSE s
\* String.prototype.trim
Trim(s) == TrimRight(TrimLeft(s))

RECURSIVE DoubleChars(_)
DoubleChars(s) == IF s = <<>> THEN <<>> ELSE <<Head(s), Head(s)>> \o DoubleChars(Tail(s))

\* An expansion of the three-digit form only
expandHexShorthand_ThreeOnly(hex) ==
  IF Len(hex) # 3 THEN hex ELSE DoubleChars(hex)

expandHexShorthand(hex) ==
  IF Len(hex) # 3 /\ Len(hex) # 4 THEN hex ELSE DoubleChars(hex)

\* Number.parseInt(two hex digits, 16)
ParseByte(s, i) == 16 * HexVal(s[i]) + HexVal(s[i + 1])

\* The result is [raised |-> TRUE, error] when the code throws, else the bytes.
parseHexToRgbaBytes(input) ==
  With(Trim(input), LAMBDA trimmed :
  With(IF trimmed # <<>> /\ Head(trimmed) = "#" THEN Tail(trimmed) ELSE trimmed,
       LAMBDA withoutHash :
  With(expandHexShorthand(withoutHash), LAMBDA expanded :
    IF Len(expanded) # 6 /\ Len(expanded) # 8
      THEN [raised |-> TRUE, error |-> "Unsupported color format"]
    ELSE IF \E i \in 1..Len(expanded) : ~IsHexChar(expanded[i])
      THEN [raised |-> TRUE, error |-> "non-hex characters"]
    ELSE [raised |-> FALSE,
          r |-> ParseByte(expanded, 1),
          g |-> ParseByte(expanded, 3),
          b |-> ParseByte(expanded, 5),
          a |-> IF Len(expanded) = 8 THEN ParseByte(expanded, 7) ELSE 255])))

\* dither.ts srgbToLinear at every byte, times ONE, rounded
SrgbToLinearTable ==
  <<
     0, 0, 1, 1, 1, 2, 2, 2, 2, 3, 3, 3, 4, 4, 4, 5,
     5, 6, 6, 7, 7, 8, 8, 9, 9, 10, 11, 11, 12, 13, 13, 14,
     15, 16, 16, 17, 18, 19, 20, 21, 22, 23, 24, 25, 26, 27, 28, 29,
     30, 31, 33, 34, 35, 36, 38, 39, 40, 42, 43, 45, 46, 48, 49, 51,
     52, 54, 56, 57, 59, 61, 63, 65, 66, 68, 70, 72, 74, 76, 78, 80,
     82, 84, 86, 89, 91, 93, 95, 98, 100, 102, 105, 107, 110, 112, 115, 117,
     120, 122, 125, 128, 130, 133, 136, 139, 142, 145, 148, 151, 154, 157, 160, 163,
     166, 169, 172, 176, 179, 182, 186, 189, 192, 196, 199, 203, 206, 210, 214, 217,
     221, 225, 229, 232, 236, 240, 244, 248, 252, 256, 260, 264, 269, 273, 277, 281,
     286, 290, 294, 299, 303, 308, 312, 317, 322, 326, 331, 336, 340, 345, 350, 355,
     360, 365, 370, 375, 380, 385, 390, 396, 401, 406, 412, 417, 422, 428, 433, 439,
     445, 450, 456, 462, 467, 473, 479, 485, 491, 497, 503, 509, 515, 521, 527, 533,
     540, 546, 552, 559, 565, 572, 578, 585, 591, 598, 605, 612, 618, 625, 632, 639,
     646, 653, 660, 667, 674, 681, 689, 696, 703, 711, 718, 725, 733, 740, 748, 756,
     763, 771, 779, 787, 794, 802, 810, 818, 826, 834, 843, 851, 859, 867, 876, 884,
     892, 901, 909, 918, 926, 935, 944, 952, 961, 970, 979, 988, 997, 1006, 1015, 1024
  >>

srgbToLinear(c) == SrgbToLinearTable[c + 1]

\* A parser that answers black for what it cannot parse
parseColorToLinearRgba_Lenient(input) ==
  With(parseHexToRgbaBytes(input), LAMBDA bytes :
    IF bytes.raised THEN [raised |-> FALSE, r |-> 0, g |-> 0, b |-> 0, a |-> ONE]
    ELSE [raised |-> FALSE,
          r |-> srgbToLinear(bytes.r),
          g |-> srgbToLinear(bytes.g),
          b |-> srgbToLinear(bytes.b),
          a |-> (bytes.a * ONE) \div 255])

\* The result is [raised |-> TRUE, error] when the code throws, else the color.
parseColorToLinearRgba(input) ==
  With(parseHexToRgbaBytes(input), LAMBDA bytes :
    IF bytes.raised THEN bytes
    ELSE [raised |-> FALSE,
          r |-> srgbToLinear(bytes.r),
          g |-> srgbToLinear(bytes.g),
          b |-> srgbToLinear(bytes.b),
          a |-> (bytes.a * ONE) \div 255])

clamp01(value) == Max2(0, Min2(ONE, value))

clampLinearRgba(color) ==
  [r |-> clamp01(color.r), g |-> clamp01(color.g),
   b |-> clamp01(color.b), a |-> clamp01(color.a)]

(***************************************************************************)
(* Oklab (color.ts).  The matrix coefficients are the code's, times 10^4.  *)
(***************************************************************************)
RECURSIVE CbrtSearch(_, _, _)
CbrtSearch(n, lo, hi) ==
  IF lo >= hi THEN lo
  ELSE LET mid == (lo + hi + 1) \div 2
       IN  IF mid * mid * mid <= n THEN CbrtSearch(n, mid, hi)
           ELSE CbrtSearch(n, lo, mid - 1)
\* Math.cbrt of a unit value: cbrt(v / ONE) * ONE = cbrt(v * ONE * ONE)
Cbrt(v) == CbrtSearch(v * ONE * ONE, 0, ONE)
Cube(v) == Mul(Mul(v, v), v)

linearRgbToOklab(color) ==
  LET l == (4122 * color.r + 5363 * color.g + 514 * color.b) \div 10000
      m == (2119 * color.r + 6807 * color.g + 1074 * color.b) \div 10000
      s == (883 * color.r + 2817 * color.g + 6300 * color.b) \div 10000
  IN  With(Cbrt(Min2(ONE, Max2(0, l))), LAMBDA lRoot :
      With(Cbrt(Min2(ONE, Max2(0, m))), LAMBDA mRoot :
      With(Cbrt(Min2(ONE, Max2(0, s))), LAMBDA sRoot :
        << (2105 * lRoot + 7936 * mRoot - 41 * sRoot) \div 10000,
           (19780 * lRoot - 24286 * mRoot + 4506 * sRoot) \div 10000,
           (259 * lRoot + 7828 * mRoot - 8087 * sRoot) \div 10000 >>)))

oklabToLinearRgb(lab, alpha) ==
  LET lPrime == lab[1] + (3963 * lab[2] + 2158 * lab[3]) \div 10000
      mPrime == lab[1] - (1056 * lab[2] + 639 * lab[3]) \div 10000
      sPrime == lab[1] - (895 * lab[2] + 12915 * lab[3]) \div 10000
  IN  With(Cube(lPrime), LAMBDA l3 :
      With(Cube(mPrime), LAMBDA m3 :
      With(Cube(sPrime), LAMBDA s3 :
        clampLinearRgba(
          [r |-> (40767 * l3 - 33077 * m3 + 2310 * s3) \div 10000,
           g |-> (26098 * m3 - 12684 * l3 - 3413 * s3) \div 10000,
           b |-> (17076 * s3 - 42 * l3 - 7034 * m3) \div 10000,
           a |-> alpha]))))

(***************************************************************************)
(* Preset defaults (defaults.ts).  Amplitudes are in sRGB levels (LSB),    *)
(* the grain scale is a unit value.                                        *)
(***************************************************************************)
BACKGROUND_VIDEO_DEFAULTS ==
  [ditherMode |-> "ign", ditherAmplitude |-> (135 * LSB) \div 100,
   colorSpace |-> "oklab", grainScale |-> (3 * ONE) \div 2, grainMonochrome |-> TRUE]

BACKGROUND_STILL_DEFAULTS ==
  [ditherMode |-> "blue-noise", ditherAmplitude |-> LSB,
   colorSpace |-> "oklab", grainScale |-> (3 * ONE) \div 2, grainMonochrome |-> TRUE]

\* A lookup that answers the video defaults for every preset
getPresetDefaults_AlwaysVideo(preset) == BACKGROUND_VIDEO_DEFAULTS

getPresetDefaults(preset) ==
  IF preset = "still" THEN BACKGROUND_STILL_DEFAULTS ELSE BACKGROUND_VIDEO_DEFAULTS

(***************************************************************************)
(* Layer resolution (engine.ts).                                           *)
(***************************************************************************)
DEFAULT_BASE_COLOR == <<"#", "0", "0", "0", "0", "0", "0">>

\* A resolution that keeps a grain of amount 0
toPreparedGrain_KeepZero(grain, presetScale, presetMonochrome) ==
  IF grain = None THEN None
  ELSE With(clamp(OrElse(grain[1].amount, 0), 0, ONE), LAMBDA amount :
         IF amount < 0 THEN None
         ELSE Some([amount |-> amount,
                    scale |-> OrElse(grain[1].scale, presetScale),
                    seed |-> OrElse(grain[1].seed, 0),
                    monochrome |-> OrElse(grain[1].monochrome, presetMonochrome)]))

\* The result is None (the code's null) or Some(prepared grain).
toPreparedGrain(grain, presetScale, presetMonochrome) ==
  IF grain = None THEN None
  ELSE With(clamp(OrElse(grain[1].amount, 0), 0, ONE), LAMBDA amount :
         IF amount <= 0 THEN None
         ELSE Some([amount |-> amount,
                    scale |-> OrElse(grain[1].scale, presetScale),
                    seed |-> OrElse(grain[1].seed, 0),
                    monochrome |-> OrElse(grain[1].monochrome, presetMonochrome)]))

\* 0.001 in unit values, rounded up to the smallest positive one
ShadowCurveFloor == 1

toPreparedShadow(shadow) ==
  [startIntensity |->
     clamp(IF shadow = None THEN 0 ELSE OrElse(shadow[1].startIntensity, 0), 0, ONE),
   endIntensity |->
     clamp(IF shadow = None THEN 0 ELSE OrElse(shadow[1].endIntensity, 0), 0, ONE),
   curve |->
     Max2(ShadowCurveFloor, IF shadow = None THEN ONE ELSE OrElse(shadow[1].curve, ONE))]

\* Array.prototype.sort with (a, b) => a.position - b.position: stable
RECURSIVE InsertByPosition(_, _)
InsertByPosition(sorted, stop) ==
  IF sorted = <<>> THEN <<stop>>
  ELSE IF sorted[Len(sorted)].position <= stop.position THEN Append(sorted, stop)
  ELSE Append(InsertByPosition(SubSeq(sorted, 1, Len(sorted) - 1), stop),
              sorted[Len(sorted)])
RECURSIVE SortByPosition(_)
SortByPosition(stops) ==
  IF stops = <<>> THEN <<>>
  ELSE InsertByPosition(SortByPosition(SubSeq(stops, 1, Len(stops) - 1)),
                        stops[Len(stops)])

\* JavaScript  !s  for an optional string
Falsy(s) == s = None \/ s[1] = <<>>

ShorthandStops(layer) ==
  LET start == IF layer.colors = None THEN DEFAULT_BASE_COLOR
               ELSE OrElse(layer.colors[1].start, DEFAULT_BASE_COLOR)
      end == IF layer.colors = None THEN start ELSE OrElse(layer.colors[1].end, start)
      midpoint == clamp(OrElse(layer.midpoint, ONE \div 2), 0, ONE)
      mid == IF layer.colors = None THEN None ELSE layer.colors[1].mid
  IN  IF Falsy(mid)
        THEN << [position |-> 0, color |-> start, alpha |-> None],
                [position |-> ONE, color |-> end, alpha |-> None] >>
        ELSE << [position |-> 0, color |-> start, alpha |-> None],
                [position |-> midpoint, color |-> mid[1], alpha |-> None],
                [position |-> ONE, color |-> end, alpha |-> None] >>

ClampStops(stops) ==
  Array([i \in 1..Len(stops) |->
           [position |-> clamp(stops[i].position, 0, ONE),
            color |-> stops[i].color,
            alpha |-> stops[i].alpha]])

\* A derivation that clamps and does not sort
resolveStops_Unsorted(layer) ==
  IF layer.stops # None /\ Len(layer.stops[1]) > 0
    THEN ClampStops(layer.stops[1])
    ELSE ShorthandStops(layer)

\* A derivation in which the shorthand wins over explicit stops
resolveStops_ColorsFirst(layer) ==
  IF layer.colors # None \/ layer.stops = None \/ Len(layer.stops[1]) = 0
    THEN ShorthandStops(layer)
    ELSE SortByPosition(ClampStops(layer.stops[1]))

resolveStops(layer) ==
  IF layer.stops # None /\ Len(layer.stops[1]) > 0
    THEN SortByPosition(ClampStops(layer.stops[1]))
    ELSE ShorthandStops(layer)

\* The arguments after a resolution that sorted each stops array it was given
argsAfterResolve_SortsInPlace(args) ==
  IF args.layers = None THEN args
  ELSE [args EXCEPT !.layers = Some(Array([i \in 1..Len(args.layers[1]) |->
          LET layer == args.layers[1][i]
          IN  IF layer.stops # None /\ Len(layer.stops[1]) > 0
                THEN LET given == [stops |-> layer.stops[1]]
                         sorted == [given EXCEPT !.stops = SortByPosition(@)]
                     IN  [layer EXCEPT !.stops = Some(sorted.stops)]
                ELSE layer]))]

\* The caller's arguments after resolveBackgroundArgs.  Resolution writes to
\* one array only: sort orders its receiver in place, and in resolveStops the
\* receiver is the array map returned, made from the copy [...layer.stops];
\* map builds each of its stops as a new object.  The arrays are kept apart
\* by name: stops is the caller's, spread the copy, mapped the one sorted.
argsAfterResolve(args) ==
  IF args.layers = None THEN args
  ELSE [args EXCEPT !.layers = Some(Array([i \in 1..Len(args.layers[1]) |->
          LET layer == args.layers[1][i]
          IN  IF layer.stops # None /\ Len(layer.stops[1]) > 0
                THEN LET given == [stops |-> layer.stops[1]]
                         copied == [stops |-> given.stops, spread |-> given.stops]
                         mapped == [stops |-> copied.stops, spread |-> copied.spread,
                                    mapped |-> ClampStops(copied.spread)]
                         sorted == [mapped EXCEPT !.mapped = SortByPosition(@)]
                     IN  [layer EXCEPT !.stops = Some(sorted.stops)]
                ELSE layer]))]

\* The result is [raised |-> TRUE, error] when the color does not parse.
toPreparedStop(stop) ==
  With(parseColorToLinearRgba(stop.color), LAMBDA parsed :
    IF parsed.raised THEN parsed
    ELSE With([r |-> parsed.r, g |-> parsed.g, b |-> parsed.b,
               a |-> clamp(OrElse(stop.alpha, parsed.a), 0, ONE)],
              LAMBDA color :
           [raised |-> FALSE,
            position |-> clamp(stop.position, 0, ONE),
            color |-> color,
            lab |-> linearRgbToOklab(color)]))

\* The first stop, in order, whose color does not parse; 0 when all parse.
FirstRaised(results) ==
  IF \E i \in 1..Len(results) : results[i].raised
    THEN CHOOSE i \in 1..Len(results) :
           results[i].raised /\ \A j \in 1..(i - 1) : ~results[j].raised
    ELSE 0

prepareLayer(layer, defaults) ==
  With(resolveStops(layer), LAMBDA raw :
  With(Array([i \in 1..Len(raw) |-> toPreparedStop(raw[i])]), LAMBDA stops :
  With(FirstRaised(stops), LAMBDA bad :
    IF bad # 0 THEN [raised |-> TRUE, error |-> stops[bad].error]
    ELSE [raised |-> FALSE,
          layer |-> layer,
          opacity |-> clamp(OrElse(layer.opacity, ONE), 0, ONE),
          blendMode |-> OrElse(layer.blendMode, "normal"),
          colorSpace |-> OrElse(layer.colorSpace, defaults.colorSpace),
          stops |-> Array([i \in 1..Len(stops) |->
                            [position |-> stops[i].position,
                             color |-> stops[i].color,
                             lab |-> stops[i].lab]]),
          shadow |-> toPreparedShadow(layer.shadow),
          grain |-> toPreparedGrain(layer.grain, defaults.grainScale,
                                    defaults.grainMonochrome)])))

\* JSON.parse on the texts the model gives it.  A JavaScript value is its
\* kind and its contents; the result is [raised |-> TRUE, error] for a text
\* that is not JSON.
JsonParse(text) ==
  LET value(kind, v) == [raised |-> FALSE, value |-> [kind |-> kind, v |-> v]]
      PlainObject == [preset |-> None, baseColor |-> None, layers |-> None,
                      grain |-> None, dither |-> None, opaque |-> None]
  IN  CASE text = "{}" -> value("object", PlainObject)
        [] text = "{\"preset\":\"still\"}" ->
             value("object", [PlainObject EXCEPT !.preset = Some("still")])
        [] text = " {\"opaque\":false} " ->
             value("object", [PlainObject EXCEPT !.opaque = Some(FALSE)])
        [] text = "null" -> value("null", 0)
        [] text = "0" -> value("number", 0)
        [] text = "12" -> value("number", 12)
        [] text = "\"\"" -> value("string", "")
        [] text = "\"{}\"" -> value("string", "{}")
        [] text = "true" -> value("boolean", TRUE)
        [] text = "false" -> value("boolean", FALSE)
        [] text = "[]" -> value("array", <<>>)
        [] text = "[{}]" -> value("array", <<[kind |-> "object", v |-> PlainObject]>>)
        [] OTHER -> [raised |-> TRUE, error |-> "SyntaxError"]

\* args is a JavaScript value.  The result is [raised |-> TRUE, error] when
\* the code throws, else the value it returns.
parseBackgroundArgs(args) ==
  IF args.kind # "string" THEN [raised |-> FALSE, value |-> args]
  ELSE With(JsonParse(args.v), LAMBDA parsed :
         IF parsed.raised THEN parsed
         ELSE LET falsy == \/ parsed.value.kind = "null"
                           \/ parsed.value.kind = "number" /\ parsed.value.v = 0
                           \/ parsed.value.kind = "string" /\ parsed.value.v = ""
                           \/ parsed.value.kind = "boolean" /\ ~parsed.value.v
                  typeof == IF parsed.value.kind \in {"object", "array", "null"}
                              THEN "object" ELSE parsed.value.kind
              IN  IF falsy \/ typeof # "object"
                    THEN [raised |-> TRUE,
                          error |-> "Background args JSON must evaluate to an object."]
                    ELSE parsed)

\* The result is [raised |-> TRUE, error] when a color does not parse: the base
\* color is parsed first, then the layers in order.
resolveBackgroundArgs(args) ==
  LET preset == OrElse(args.preset, "video")
      defaults == getPresetDefaults(preset)
      ditherMode == IF args.dither = None THEN defaults.ditherMode
                    ELSE OrElse(args.dither[1].mode, defaults.ditherMode)
      rawLayers == OrElse(args.layers, <<>>)
  IN  With(parseColorToLinearRgba(OrElse(args.baseColor, DEFAULT_BASE_COLOR)),
           LAMBDA baseColor :
      With(Array([i \in 1..Len(rawLayers) |-> prepareLayer(rawLayers[i], defaults)]),
           LAMBDA layers :
      With(FirstRaised(layers), LAMBDA bad :
        IF baseColor.raised THEN [raised |-> TRUE, error |-> baseColor.error]
        ELSE IF bad # 0 THEN [raised |-> TRUE, error |-> layers[bad].error]
        ELSE [raised |-> FALSE,
              baseColor |-> [r |-> baseColor.r, g |-> baseColor.g,
                             b |-> baseColor.b, a |-> baseColor.a],
              layers |-> layers,
              preset |-> preset,
              ditherMode |-> ditherMode,
              ditherAmplitude |->
                Max2(0, IF args.dither = None THEN defaults.ditherAmplitude
                        ELSE OrElse(args.dither[1].amplitude, defaults.ditherAmplitude)),
              grain |-> toPreparedGrain(args.grain, defaults.grainScale,
                                        defaults.grainMonochrome),
              opaque |-> OrElse(args.opaque, TRUE)])))

(***************************************************************************)
(* Progress samplers (math.ts).  Coordinates and lengths are in CU, the    *)
(* progress t and the mask are unit values.                                *)
(***************************************************************************)
\* EPSILON = 1e-6 lies between 0 and the smallest positive fixed-point
\* value:  v <= EPSILON  and  v < EPSILON  are  v <= 0,  and
\* Math.max(EPSILON, v)  is at least the smallest positive value.
LeEpsilon(v) == v <= 0
MaxEpsilon(v) == Max2(1, v)

RECURSIVE SqrtSearch(_, _, _)
SqrtSearch(n, lo, hi) ==
  IF lo >= hi THEN lo
  ELSE LET mid == (lo + hi + 1) \div 2
       IN  IF mid * mid <= n THEN SqrtSearch(n, mid, hi)
           ELSE SqrtSearch(n, lo, mid - 1)
\* floor of the square root of a natural number below 2^30
ISqrt(n) == SqrtSearch(n, 0, 2^15)
\* Math.sqrt of a unit value
SqrtUnit(v) == ISqrt(v * ONE)

\* Math.pow(base, exponent) for a unit base in [0, 1] and an exponent that is
\* a multiple of one half, or so small that the power is 1 for every positive
\* representable base.
RECURSIVE PowHalves(_, _)
PowHalves(root, halves) ==
  IF halves = 0 THEN ONE ELSE Mul(root, PowHalves(root, halves - 1))
Pow(base, exponent) ==
  IF exponent < ONE \div 2
    THEN (IF base = 0 /\ exponent > 0 THEN 0 ELSE ONE)
    ELSE IF exponent % ONE = 0
      THEN PowHalves(base, exponent \div ONE)
      ELSE Mul(SqrtUnit(base), PowHalves(base, exponent \div ONE))

applyExponent(value, exponent) ==
  IF exponent = None \/ exponent[1] = 0 \/ exponent[1] = ONE
    THEN value
    ELSE Pow(value, IF exponent[1] > 0 THEN exponent[1] ELSE ONE)

\* Math.sin and Math.cos of an angle in degrees that is a multiple of 45
SinDeg(angle) ==
  LET a == angle % 360
  IN  CASE a = 0 -> 0 [] a = 45 -> 724 [] a = 90 -> ONE [] a = 135 -> 724
        [] a = 180 -> 0 [] a = 225 -> -724 [] a = 270 -> 0 - ONE [] a = 315 -> -724
CosDeg(angle) == SinDeg(angle + 90)

IsFinite(v) == v # None

sampleLinearProgress(layer, x, y, width, height) ==
  LET hasExplicitPoints ==
        IsFinite(layer.startX) /\ IsFinite(layer.startY) /\
        IsFinite(layer.endX) /\ IsFinite(layer.endY)
      rawT ==
        IF hasExplicitPoints
          THEN LET dirX == layer.endX[1] - layer.startX[1]
                   dirY == layer.endY[1] - layer.startY[1]
                   lenSq == dirX * dirX + dirY * dirY
               IN  IF LeEpsilon(lenSq) THEN 0
                   ELSE (((x - layer.startX[1]) * dirX + (y - layer.startY[1]) * dirY)
                          * ONE) \div lenSq
          ELSE LET angle == OrElse(layer.angle, 180)
                   dirX == SinDeg(angle)
                   dirY == 0 - CosDeg(angle)
                   gradientLength == Abs(Mul(width, SinDeg(angle)))
                                       + Abs(Mul(height, CosDeg(angle)))
                   safeLength == MaxEpsilon(gradientLength)
                   halfLength == safeLength \div 2
                   cx == width \div 2
                   cy == height \div 2
                   projection == Mul(x - cx, dirX) + Mul(y - cy, dirY)
               IN  ((projection + halfLength) * ONE) \div safeLength
  IN  [t |-> applyExponent(clamp(rawT, 0, ONE), layer.easing), mask |-> ONE]

\* The largest normalized offset the model squares; farther pixels count as
\* this far (they are beyond every outer radius the model draws).
RadialCap == 4 * ONE

sampleRadialProgress(layer, x, y, width, height) ==
  LET cx == OrElse(layer.centerX, width \div 2)
      cy == OrElse(layer.centerY, height \div 2)
      rx == MaxEpsilon(OrElse(layer.radiusX, width \div 2))
      ry == MaxEpsilon(OrElse(layer.radiusY, height \div 2))
      dx == clamp(((x - cx) * ONE) \div rx, 0 - RadialCap, RadialCap)
      dy == clamp(((y - cy) * ONE) \div ry, 0 - RadialCap, RadialCap)
      p == OrElse(layer.power, 2 * ONE)
      distance ==
        IF p = 2 * ONE
          THEN ISqrt(dx * dx + dy * dy)
          \* the model draws p from {2, 4}: the fourth root of the sum of
          \* fourth powers
          ELSE SqrtUnit(SqrtUnit(Mul(Mul(dx, dx), Mul(dx, dx))
                                   + Mul(Mul(dy, dy), Mul(dy, dy))))
      innerRadius == OrElse(layer.innerRadius, 0)
      outerRadius == OrElse(layer.outerRadius, ONE)
      span == MaxEpsilon(outerRadius - innerRadius)
      rawT == clamp(((distance - innerRadius) * ONE) \div span, 0, ONE)
  IN  [t |-> applyExponent(rawT, layer.falloff), mask |-> ONE]

\* A distance to the rectangle of the same size placed at the origin
signedDistanceRoundedRect_AtOrigin(x, y, rectX, rectY, rectW, rectH, radius) ==
  LET halfW == rectW \div 2
      halfH == rectH \div 2
      clampedRadius == clamp(radius, 0, Min2(halfW, halfH))
      qx == Abs(x - halfW) - (halfW - clampedRadius)
      qy == Abs(y - halfH) - (halfH - clampedRadius)
  IN  ISqrt(Max2(qx, 0) * Max2(qx, 0) + Max2(qy, 0) * Max2(qy, 0))
        + Min2(Max2(qx, qy), 0) - clampedRadius

signedDistanceRoundedRect(x, y, rectX, rectY, rectW, rectH, radius) ==
  LET cx == rectX + rectW \div 2
      cy == rectY + rectH \div 2
      halfW == rectW \div 2
      halfH == rectH \div 2
      clampedRadius == clamp(radius, 0, Min2(halfW, halfH))
      qx == Abs(x - cx) - (halfW - clampedRadius)
      qy == Abs(y - cy) - (halfH - clampedRadius)
      outside == ISqrt(Max2(qx, 0) * Max2(qx, 0) + Max2(qy, 0) * Max2(qy, 0))
      inside == Min2(Max2(qx, qy), 0)
  IN  outside + inside - clampedRadius

\* math.ts erf (Abramowitz & Stegun 7.1.26) at z = i/8, i = 0..24, times ONE
ErfTable ==
  << 0, 144, 283, 414, 533, 638, 728, 803, 863, 910, 945, 971, 989, 1002,
     1010, 1016, 1019, 1021, 1023, 1023, 1024, 1024, 1024, 1024, 1024 >>

\* erf of z given in eighths
erf(z8) ==
  LET ax == Min2(24, Abs(z8))
  IN  IF z8 < 0 THEN 0 - ErfTable[ax + 1] ELSE ErfTable[ax + 1]

\* 0.5 * (1 + erf(sdf / (sigma * SQRT2))) with sigma = blur / 2
gaussianShadow(sdf, blur) ==
  LET bound == 4 * blur
      s == clamp(sdf, 0 - bound, bound)
      z8 == IF s >= 0 THEN (s * 11314) \div (blur * 1000)
            ELSE 0 - (((0 - s) * 11314) \div (blur * 1000))
  IN  (ONE + erf(z8)) \div 2

sampleBoxProgress(layer, x, y, width, height) ==
  LET rectX == OrElse(layer.x, 0) + OrElse(layer.offsetX, 0)
      rectY == OrElse(layer.y, 0) + OrElse(layer.offsetY, 0)
      rectW == Max2(CU, OrElse(layer.width, width))
      rectH == Max2(CU, OrElse(layer.height, height))
      radius == OrElse(layer.radius, 0)
      spread == OrElse(layer.spread, 0)
      blur == Max2(0, OrElse(layer.blur, 0))
      inset == OrElse(layer.inset, TRUE)
      innerW == Max2(0, rectW - 2 * spread)
      innerH == Max2(0, rectH - 2 * spread)
      innerR == Max2(0, radius - spread)
      innerSdf == signedDistanceRoundedRect(x, y, rectX + spread, rectY + spread,
                                            innerW, innerH, innerR)
  IN  With(signedDistanceRoundedRect(x, y, rectX, rectY, rectW, rectH, radius),
           LAMBDA outerSdf :
        IF inset
          THEN IF outerSdf > 0 THEN [t |-> 0, mask |-> 0]
               ELSE IF innerW <= 0 \/ innerH <= 0 THEN [t |-> 0, mask |-> ONE]
               ELSE IF LeEpsilon(blur)
                 THEN [t |-> IF innerSdf < 0 THEN ONE ELSE 0, mask |-> ONE]
               ELSE [t |-> ONE - gaussianShadow(innerSdf, blur), mask |-> ONE]
          ELSE IF outerSdf <= 0 THEN [t |-> 0, mask |-> 0]
               ELSE IF LeEpsilon(blur)
                 THEN (IF outerSdf <= spread THEN [t |-> 0, mask |-> ONE]
                       ELSE [t |-> 0, mask |-> 0])
               ELSE With(ONE - gaussianShadow(outerSdf - spread, blur),
                         LAMBDA rawAlpha :
                      IF rawAlpha * 1000 < ONE THEN [t |-> 0, mask |-> 0]
                      ELSE [t |-> ONE - rawAlpha, mask |-> ONE]))

sampleLayerProgress(layer, x, y, width, height) ==
  IF layer.type = "linear" THEN sampleLinearProgress(layer, x, y, width, height)
  ELSE IF layer.type = "radial" THEN sampleRadialProgress(layer, x, y, width, height)
  ELSE sampleBoxProgress(layer, x, y, width, height)

(***************************************************************************)
(* Noise (dither.ts).  Noise coordinates are in hundredths of a pixel, the *)
(* noise values are unit values.                                           *)
(***************************************************************************)
Million == 10^6

\* (52.9829189 * fract(x * 0.06711056 + y * 0.00583715)) % 1
ign(x, y) ==
  LET dot == x * 671 + y * 58
      fract == (dot % Million) \div 1000
  IN  (((fract * 52983) % Million) * ONE) \div Million

\* Design coordinate (CU) to noise coordinate
Centi(v) == (v * 100) \div CU

\* dither.ts linearToSrgb8 at every unit value, in sRGB levels times LSB, rounded
LinearToSrgb8Table ==
  <<
     0, 206, 412, 618, 811, 977, 1125, 1259, 1383, 1497, 1605, 1706, 1802, 1894, 1981, 2065,
     2146, 2224, 2299, 2372, 2443, 2511, 2578, 2643, 2706, 2768, 2828, 2888, 2945, 3002, 3057, 3112,
     3165, 3218, 3269, 3320, 3370, 3419, 3467, 3514, 3561, 3607, 3653, 3697, 3742, 3785, 3828, 3871,
     3913, 3954, 3996, 4036, 4076, 4116, 4155, 4194, 4232, 4270, 4308, 4345, 4382, 4418, 4454, 4490,
     4526, 4561, 4596, 4630, 4664, 4698, 4732, 4765, 4798, 4831, 4864, 4896, 4928, 4960, 4992, 5023,
     5054, 5085, 5116, 5146, 5176, 5206, 5236, 5266, 5295, 5324, 5353, 5382, 5411, 5439, 5468, 5496,
     5524, 5552, 5579, 5607, 5634, 5661, 5688, 5715, 5742, 5768, 5794, 5821, 5847, 5873, 5899, 5924,
     5950, 5975, 6000, 6026, 6051, 6075, 6100, 6125, 6149, 6174, 6198, 6222, 6246, 6270, 6294, 6318,
     6342, 6365, 6388, 6412, 6435, 6458, 6481, 6504, 6527, 6549, 6572, 6595, 6617, 6639, 6661, 6684,
     6706, 6728, 6749, 6771, 6793, 6815, 6836, 6858, 6879, 6900, 6921, 6942, 6963, 6984, 7005, 7026,
     7047, 7068, 7088, 7109, 7129, 7149, 7170, 7190, 7210, 7230, 7250, 7270, 7290, 7310, 7329, 7349,
     7369, 7388, 7408, 7427, 7446, 7466, 7485, 7504, 7523, 7542, 7561, 7580, 7599, 7618, 7637, 7655,
     7674, 7692, 7711, 7729, 7748, 7766, 7785, 7803, 7821, 7839, 7857, 7875, 7893, 7911, 7929, 7947,
     7965, 7982, 8000, 8018, 8035, 8053, 8070, 8088, 8105, 8122, 8140, 8157, 8174, 8191, 8208, 8225,
     8243, 8259, 8276, 8293, 8310, 8327, 8344, 8360, 8377, 8394, 8410, 8427, 8443, 8460, 8476, 8493,
     8509, 8525, 8542, 8558, 8574, 8590, 8606, 8622, 8638, 8654, 8670, 8686, 8702, 8718, 8734, 8750,
     8765, 8781, 8797, 8812, 8828, 8844, 8859, 8875, 8890, 8906, 8921, 8936, 8952, 8967, 8982, 8997,
     9013, 9028, 9043, 9058, 9073, 9088, 9103, 9118, 9133, 9148, 9163, 9178, 9193, 9207, 9222, 9237,
     9252, 9266, 9281, 9295, 9310, 9325, 9339, 9354, 9368, 9382, 9397, 9411, 9426, 9440, 9454, 9468,
     9483, 9497, 9511, 9525, 9539, 9554, 9568, 9582, 9596, 9610, 9624, 9638, 9652, 9665, 9679, 9693,
     9707, 9721, 9735, 9748, 9762, 9776, 9789, 9803, 9817, 9830, 9844, 9857, 9871, 9884, 9898, 9911,
     9925, 9938, 9952, 9965, 9978, 9992, 10005, 10018, 10031, 10045, 10058, 10071, 10084, 10097, 10110, 10124,
     10137, 10150, 10163, 10176, 10189, 10202, 10215, 10227, 10240, 10253, 10266, 10279, 10292, 10305, 10317, 10330,
     10343, 10356, 10368, 10381, 10394, 10406, 10419, 10431, 10444, 10457, 10469, 10482, 10494, 10507, 10519, 10532,
     10544, 10556, 10569, 10581, 10593, 10606, 10618, 10630, 10643, 10655, 10667, 10679, 10692, 10704, 10716, 10728,
     10740, 10752, 10764, 10777, 10789, 10801, 10813, 10825, 10837, 10849, 10861, 10873, 10884, 10896, 10908, 10920,
     10932, 10944, 10956, 10967, 10979, 10991, 11003, 11015, 11026, 11038, 11050, 11061, 11073, 11085, 11096, 11108,
     11119, 11131, 11143, 11154, 11166, 11177, 11189, 11200, 11212, 11223, 11235, 11246, 11257, 11269, 11280, 11292,
     11303, 11314, 11326, 11337, 11348, 11360, 11371, 11382, 11393, 11405, 11416, 11427, 11438, 11449, 11460, 11472,
     11483, 11494, 11505, 11516, 11527, 11538, 11549, 11560, 11571, 11582, 11593, 11604, 11615, 11626, 11637, 11648,
     11659, 11670, 11681, 11691, 11702, 11713, 11724, 11735, 11746, 11756, 11767, 11778, 11789, 11799, 11810, 11821,
     11832, 11842, 11853, 11864, 11874, 11885, 11895, 11906, 11917, 11927, 11938, 11948, 11959, 11969, 11980, 11991,
     12001, 12012, 12022, 12032, 12043, 12053, 12064, 12074, 12085, 12095, 12105, 12116, 12126, 12136, 12147, 12157,
     12167, 12178, 12188, 12198, 12209, 12219, 12229, 12239, 12250, 12260, 12270, 12280, 12290, 12301, 12311, 12321,
     12331, 12341, 12351, 12361, 12371, 12382, 12392, 12402, 12412, 12422, 12432, 12442, 12452, 12462, 12472, 12482,
     12492, 12502, 12512, 12522, 12532, 12541, 12551, 12561, 12571, 12581, 12591, 12601, 12611, 12620, 12630, 12640,
     12650, 12660, 12669, 12679, 12689, 12699, 12708, 12718, 12728, 12738, 12747, 12757, 12767, 12776, 12786, 12796,
     12805, 12815, 12825, 12834, 12844, 12853, 12863, 12873, 12882, 12892, 12901, 12911, 12920, 12930, 12939, 12949,
     12958, 12968, 12977, 12987, 12996, 13006, 13015, 13025, 13034, 13044, 13053, 13062, 13072, 13081, 13091, 13100,
     13109, 13119, 13128, 13137, 13147, 13156, 13165, 13175, 13184, 13193, 13202, 13212, 13221, 13230, 13239, 13249,
     13258, 13267, 13276, 13285, 13295, 13304, 13313, 13322, 13331, 13340, 13350, 13359, 13368, 13377, 13386, 13395,
     13404, 13413, 13422, 13431, 13440, 13450, 13459, 13468, 13477, 13486, 13495, 13504, 13513, 13522, 13531, 13540,
     13549, 13557, 13566, 13575, 13584, 13593, 13602, 13611, 13620, 13629, 13638, 13647, 13655, 13664, 13673, 13682,
     13691, 13700, 13709, 13717, 13726, 13735, 13744, 13753, 13761, 13770, 13779, 13788, 13796, 13805, 13814, 13823,
     13831, 13840, 13849, 13857, 13866, 13875, 13883, 13892, 13901, 13909, 13918, 13927, 13935, 13944, 13953, 13961,
     13970, 13978, 13987, 13996, 14004, 14013, 14021, 14030, 14038, 14047, 14056, 14064, 14073, 14081, 14090, 14098,
     14107, 14115, 14124, 14132, 14141, 14149, 14157, 14166, 14174, 14183, 14191, 14200, 14208, 14216, 14225, 14233,
     14242, 14250, 14258, 14267, 14275, 14284, 14292, 14300, 14309, 14317, 14325, 14334, 14342, 14350, 14358, 14367,
     14375, 14383, 14392, 14400, 14408, 14416, 14425, 14433, 14441, 14449, 14458, 14466, 14474, 14482, 14490, 14499,
     14507, 14515, 14523, 14531, 14540, 14548, 14556, 14564, 14572, 14580, 14588, 14597, 14605, 14613, 14621, 14629,
     14637, 14645, 14653, 14661, 14669, 14677, 14686, 14694, 14702, 14710, 14718, 14726, 14734, 14742, 14750, 14758,
     14766, 14774, 14782, 14790, 14798, 14806, 14814, 14822, 14830, 14838, 14845, 14853, 14861, 14869, 14877, 14885,
     14893, 14901, 14909, 14917, 14925, 14932, 14940, 14948, 14956, 14964, 14972, 14980, 14988, 14995, 15003, 15011,
     15019, 15027, 15034, 15042, 15050, 15058, 15066, 15073, 15081, 15089, 15097, 15105, 15112, 15120, 15128, 15136,
     15143, 15151, 15159, 15166, 15174, 15182, 15190, 15197, 15205, 15213, 15220, 15228, 15236, 15243, 15251, 15259,
     15266, 15274, 15282, 15289, 15297, 15305, 15312, 15320, 15327, 15335, 15343, 15350, 15358, 15365, 15373, 15381,
     15388, 15396, 15403, 15411, 15418, 15426, 15434, 15441, 15449, 15456, 15464, 15471, 15479, 15486, 15494, 15501,
     15509, 15516, 15524, 15531, 15539, 15546, 15554, 15561, 15569, 15576, 15583, 15591, 15598, 15606, 15613, 15621,
     15628, 15635, 15643, 15650, 15658, 15665, 15673, 15680, 15687, 15695, 15702, 15709, 15717, 15724, 15732, 15739,
     15746, 15754, 15761, 15768, 15776, 15783, 15790, 15798, 15805, 15812, 15819, 15827, 15834, 15841, 15849, 15856,
     15863, 15870, 15878, 15885, 15892, 15899, 15907, 15914, 15921, 15928, 15936, 15943, 15950, 15957, 15965, 15972,
     15979, 15986, 15993, 16001, 16008, 16015, 16022, 16029, 16037, 16044, 16051, 16058, 16065, 16072, 16079, 16087,
     16094, 16101, 16108, 16115, 16122, 16129, 16136, 16144, 16151, 16158, 16165, 16172, 16179, 16186, 16193, 16200,
     16207, 16214, 16222, 16229, 16236, 16243, 16250, 16257, 16264, 16271, 16278, 16285, 16292, 16299, 16306, 16313,
     16320
  >>

linearToSrgb8(c) == LinearToSrgb8Table[c + 1]

triangularNoise(x, y, seed) ==
  LET base == seed * 1771
      u1 == ign(x + 1120 + base, y + 3790 + base \div 2)
      u2 == ign(x + 5940 + (base * 13) \div 10, y + 730 + (base * 9) \div 10)
  IN  u1 + u2 - ONE

perceptualGrainScale(color) ==
  LET luminance == Max2(1, (2126 * color.r + 7152 * color.g + 722 * color.b) \div 10000)
  IN  Min2(ONE, SqrtUnit((luminance * 100) \div 18))

applyGrain(color, grain, x, y) ==
  IF grain = None THEN color
  ELSE LET g == grain[1]
           sx == Mul(Centi(x), g.scale)
           sy == Mul(Centi(y), g.scale)
           pScale == perceptualGrainScale(color)
           nr == Mul(Mul(triangularNoise(sx + 1310, sy + 770, g.seed), g.amount), pScale)
           ng == Mul(Mul(triangularNoise(sx + 2930, sy + 1910, g.seed + 1), g.amount), pScale)
           nb == Mul(Mul(triangularNoise(sx + 4790, sy + 3130, g.seed + 2), g.amount), pScale)
       IN  IF g.monochrome
             THEN With(Mul(Mul(triangularNoise(sx, sy, g.seed), g.amount), pScale),
                       LAMBDA n :
                    clampLinearRgba([r |-> color.r + n, g |-> color.g + n,
                                     b |-> color.b + n, a |-> color.a]))
             ELSE clampLinearRgba([r |-> color.r + nr, g |-> color.g + ng,
                                   b |-> color.b + nb, a |-> color.a])

\* The result is None (the code's null) or Some(noise in sRGB levels).
computeGrainSrgb(grain, x, y) ==
  IF grain = None THEN None
  ELSE LET g == grain[1]
           sx == Mul(Centi(x), g.scale)
           sy == Mul(Centi(y), g.scale)
           amplitude == (g.amount * 255 * LSB) \div ONE
       IN  IF g.monochrome
             THEN With(Mul(triangularNoise(sx, sy, g.seed), amplitude), LAMBDA n :
                    Some([r |-> n, g |-> n, b |-> n]))
             ELSE Some([r |-> Mul(triangularNoise(sx + 1310, sy + 770, g.seed), amplitude),
                        g |-> Mul(triangularNoise(sx + 2930, sy + 1910, g.seed + 1), amplitude),
                        b |-> Mul(triangularNoise(sx + 4790, sy + 3130, g.seed + 2), amplitude)])

(***************************************************************************)
(* Per-pixel color (engine.ts).                                            *)
(***************************************************************************)
\* The segment the code's loop returns from: the first i with tt <= stops[i+1].position
\* A sampling that steps from stop to stop and does not interpolate
sampleStops_Stepped(stops, t, colorSpace) ==
  IF Len(stops) = 0 THEN [r |-> 0, g |-> 0, b |-> 0, a |-> 0]
  ELSE IF Len(stops) = 1 THEN stops[1].color
  ELSE LET tt == clamp(t, 0, ONE)
           last == stops[Len(stops)]
       IN  IF tt <= stops[1].position THEN stops[1].color
           ELSE IF tt >= last.position THEN last.color
           ELSE stops[CHOOSE k \in 1..(Len(stops) - 1) :
                        /\ tt <= stops[k + 1].position
                        /\ \A j \in 1..(k - 1) : tt > stops[j + 1].position].color

sampleStops(stops, t, colorSpace) ==
  IF Len(stops) = 0 THEN [r |-> 0, g |-> 0, b |-> 0, a |-> 0]
  ELSE IF Len(stops) = 1 THEN stops[1].color
  ELSE LET tt == clamp(t, 0, ONE)
           last == stops[Len(stops)]
       IN  IF tt <= stops[1].position THEN stops[1].color
           ELSE IF tt >= last.position THEN last.color
           ELSE With(CHOOSE k \in 1..(Len(stops) - 1) :
                       /\ tt <= stops[k + 1].position
                       /\ \A j \in 1..(k - 1) : tt > stops[j + 1].position,
                     LAMBDA i :
                With(stops[i], LAMBDA start :
                With(stops[i + 1], LAMBDA end :
                With(((tt - start.position) * ONE)
                       \div Max2(1, end.position - start.position),
                     LAMBDA segT :
                  IF colorSpace = "linear-srgb"
                    THEN [r |-> lerp(start.color.r, end.color.r, segT),
                          g |-> lerp(start.color.g, end.color.g, segT),
                          b |-> lerp(start.color.b, end.color.b, segT),
                          a |-> lerp(start.color.a, end.color.a, segT)]
                    ELSE oklabToLinearRgb(
                           << lerp(start.lab[1], end.lab[1], segT),
                              lerp(start.lab[2], end.lab[2], segT),
                              lerp(start.lab[3], end.lab[3], segT) >>,
                           lerp(start.color.a, end.color.a, segT))))))

\* A shadow that runs from endIntensity to startIntensity
applyShadow_Reversed(color, progress, shadow) ==
  LET shapedT == Pow(clamp(progress, 0, ONE), shadow.curve)
  IN  With(clamp(lerp(shadow.endIntensity, shadow.startIntensity, shapedT), 0, ONE),
           LAMBDA intensity :
      With(ONE - intensity, LAMBDA multiplier :
        IF intensity <= 0 THEN color
        ELSE [r |-> Mul(color.r, multiplier), g |-> Mul(color.g, multiplier),
              b |-> Mul(color.b, multiplier), a |-> color.a]))

applyShadow(color, progress, shadow) ==
  LET shapedT == Pow(clamp(progress, 0, ONE), shadow.curve)
  IN  With(clamp(lerp(shadow.startIntensity, shadow.endIntensity, shapedT), 0, ONE),
           LAMBDA intensity :
      With(ONE - intensity, LAMBDA multiplier :
        IF intensity <= 0 THEN color
        ELSE [r |-> Mul(color.r, multiplier), g |-> Mul(color.g, multiplier),
              b |-> Mul(color.b, multiplier), a |-> color.a]))

blendChannel(destination, source, blendMode) ==
  IF blendMode = "add" THEN Min2(ONE, destination + source)
  ELSE IF blendMode = "multiply" THEN Mul(destination, source)
  ELSE IF blendMode = "screen" THEN ONE - Mul(ONE - destination, ONE - source)
  ELSE source

\* A compositing that weights the destination with alpha and the blend
\* with 1 - alpha.
compositeLinear_SwappedWeights(destination, source, blendMode) ==
  LET alpha == clamp(source.a, 0, ONE)
  IN  IF alpha <= 0 THEN destination
      ELSE clampLinearRgba(
             [r |-> Mul(destination.r, alpha)
                      + Mul(blendChannel(destination.r, source.r, blendMode), ONE - alpha),
              g |-> Mul(destination.g, alpha)
                      + Mul(blendChannel(destination.g, source.g, blendMode), ONE - alpha),
              b |-> Mul(destination.b, alpha)
                      + Mul(blendChannel(destination.b, source.b, blendMode), ONE - alpha),
              a |-> alpha + Mul(destination.a, ONE - alpha)])

\* A compositing whose result takes the source's alpha.
compositeLinear_SourceAlpha(destination, source, blendMode) ==
  LET alpha == clamp(source.a, 0, ONE)
  IN  IF alpha <= 0 THEN destination
      ELSE clampLinearRgba(
             [r |-> Mul(destination.r, ONE - alpha)
                      + Mul(blendChannel(destination.r, source.r, blendMode), alpha),
              g |-> Mul(destination.g, ONE - alpha)
                      + Mul(blendChannel(destination.g, source.g, blendMode), alpha),
              b |-> Mul(destination.b, ONE - alpha)
                      + Mul(blendChannel(destination.b, source.b, blendMode), alpha),
              a |-> alpha])

compositeLinear(destination, source, blendMode) ==
  LET alpha == clamp(source.a, 0, ONE)
  IN  IF alpha <= 0 THEN destination
      ELSE clampLinearRgba(
             [r |-> Mul(destination.r, ONE - alpha)
                      + Mul(blendChannel(destination.r, source.r, blendMode), alpha),
              g |-> Mul(destination.g, ONE - alpha)
                      + Mul(blendChannel(destination.g, source.g, blendMode), alpha),
              b |-> Mul(destination.b, ONE - alpha)
                      + Mul(blendChannel(destination.b, source.b, blendMode), alpha),
              a |-> alpha + Mul(destination.a, ONE - alpha)])

\* The result is None (the code's null) or Some(color).
sampleLayerColor(preparedLayer, x, y, width, height) ==
  With(sampleLayerProgress(preparedLayer.layer, x, y, width, height), LAMBDA progress :
    IF progress.mask <= 0 THEN None
    ELSE
      With(sampleStops(preparedLayer.stops, progress.t, preparedLayer.colorSpace),
           LAMBDA sampled :
      With(applyShadow(sampled, progress.t, preparedLayer.shadow), LAMBDA shadowed :
      With(applyGrain(shadowed, preparedLayer.grain, x, y), LAMBDA withGrain :
      With(Mul(Mul(withGrain.a, preparedLayer.opacity), progress.mask), LAMBDA alpha :
        IF alpha <= 0 THEN None
        ELSE Some([r |-> withGrain.r, g |-> withGrain.g, b |-> withGrain.b,
                   a |-> alpha]))))))

\* Math.round of a value in sRGB levels, clamped to a byte
quantizeChannel(value) == Max2(0, Min2(255, (value + LSB \div 2) \div LSB))

(***************************************************************************)
(* Blue noise (dither.ts).  The texture is a torus of BN_SIZE by BN_SIZE   *)
(* thresholds; the model keeps the algorithm and draws a smaller torus.    *)
(* The kernel values are times 10^6.                                       *)
(***************************************************************************)
BN_SIZE == 2^2
BN_N == BN_SIZE * BN_SIZE
RADIUS == 6

\* exp(-d2 / (2 * 1.9 * 1.9)) for d2 = dx*dx + dy*dy in 0..72
KernelTable ==
  << 1000000, 870660, 758048, 660002, 574637, 500313, 435603, 379262, 330208,
     287499, 250313, 217938, 189750, 165207, 143839, 125235, 109037, 94934,
     82655, 71965, 62657, 54553, 47497, 41354, 36005, 31348, 27293, 23763,
     20690, 18014, 15684, 13655, 11889, 10351, 9013, 7847, 6832, 5948, 5179,
     4509, 3926, 3418, 2976, 2591, 2256, 1964, 1710, 1489, 1296, 1129, 983,
     856, 745, 649, 565, 492, 428, 373, 324, 283, 246, 214, 186, 162, 141,
     123, 107, 93, 81, 71, 62, 54, 47 >>

kernelWidth == 2 * RADIUS + 1
kernel(k) ==
  LET dy == (k \div kernelWidth) - RADIUS
      dx == (k % kernelWidth) - RADIUS
  IN  KernelTable[dx * dx + dy * dy + 1]

\* The energy addInfluence(idx) adds to one cell: the kernel entries whose
\* offset lands on the cell after toroidal wrapping, row by row.
RECURSIVE InfluenceOfRow(_, _, _, _)
InfluenceOfRow(idx, cell, dy, dx) ==
  IF dx > RADIUS THEN 0
  ELSE LET px == idx % BN_SIZE
           py == idx \div BN_SIZE
           nx == (((px + dx) % BN_SIZE) + BN_SIZE) % BN_SIZE
           ny == (((py + dy) % BN_SIZE) + BN_SIZE) % BN_SIZE
           k == (dy + RADIUS) * kernelWidth + (dx + RADIUS)
       IN  (IF ny * BN_SIZE + nx = cell THEN kernel(k) ELSE 0)
             + InfluenceOfRow(idx, cell, dy, dx + 1)

RECURSIVE InfluenceOn(_, _, _)
InfluenceOn(idx, cell, dy) ==
  IF dy > RADIUS THEN 0
  ELSE InfluenceOfRow(idx, cell, dy, 0 - RADIUS) + InfluenceOn(idx, cell, dy + 1)

\* energy and texture are sequences: entry cell + 1 is the code's [cell]
addInfluence(energy, idx) ==
  Array([c \in 1..BN_N |-> energy[c] + InfluenceOn(idx, c - 1, 0 - RADIUS)])

\* The lowest energy among the unplaced cells, the lowest index on a tie
bestIdx(order, energy) ==
  LET placed == {order[i] : i \in 1..Len(order)}
  IN  With((0..(BN_N - 1)) \ placed, LAMBDA free :
        CHOOSE i \in free :
          \A j \in free : energy[i + 1] < energy[j + 1]
                            \/ (energy[i + 1] = energy[j + 1] /\ i <= j))

RECURSIVE PlaceAll(_, _)
PlaceAll(order, energy) ==
  IF Len(order) = BN_N THEN order
  ELSE With(bestIdx(order, energy), LAMBDA best :
         PlaceAll(Append(order, best), addInfluence(energy, best)))

generateBlueNoise ==
  LET first == (33 % BN_SIZE) * BN_SIZE + (33 % BN_SIZE)
  IN  With(PlaceAll(<<first>>, addInfluence(Array([c \in 1..BN_N |-> 0]), first)),
           LAMBDA order :
        LET rankOf(cell) == (CHOOSE r \in 1..BN_N : order[r] = cell) - 1
        IN  Array([c \in 1..BN_N |->
                     (rankOf(c - 1) * 255 * 2 + (BN_N - 1)) \div (2 * (BN_N - 1))]))

\* A getBlueNoise that generates on every call
getBlueNoise_Regenerate(cache, runs) ==
  [cache |-> Some([id |-> runs + 1, data |-> generateBlueNoise]),
   runs |-> runs + 1,
   array |-> [id |-> runs + 1, data |-> generateBlueNoise]]

\* getBlueNoise on the cache: cache is None or Some(array), an array is its
\* identity and its contents; runs counts the runs of generateBlueNoise.
getBlueNoise(cache, runs) ==
  IF cache = None
    THEN [cache |-> Some([id |-> runs + 1, data |-> generateBlueNoise]),
          runs |-> runs + 1,
          array |-> [id |-> runs + 1, data |-> generateBlueNoise]]
    ELSE [cache |-> cache, runs |-> runs, array |-> cache[1]]

getBlueNoiseTexture64(cache, runs) == getBlueNoise(cache, runs)

\* The bitwise  a & b  of a 32-bit integer a and a mask b >= 0: the bits of
\* the two's complement of a below the sign bit, ANDed with b one by one
Low31(a) == IF a >= 0 THEN a ELSE (a + 2147483647) + 1
RECURSIVE AndBits(_, _)
AndBits(a, b) ==
  IF a = 0 \/ b = 0 THEN 0 ELSE (a % 2) * (b % 2) + 2 * AndBits(a \div 2, b \div 2)

\* The remainder  a % (b + 1)  of JavaScript, which has the sign of a
BitAnd_Remainder(a, b) ==
  IF a >= 0 \/ a % (b + 1) = 0 THEN a % (b + 1) ELSE (a % (b + 1)) - (b + 1)

BitAnd(a, b) == AndBits(Low31(a), b)

\* The indices of the two samples of getDitherValue in the texture:
\* (x & 63) + ((y & 63) << 6)  and  ((x + 37) & 63) + (((y + 17) & 63) << 6)
\* on the texture of BN_SIZE * BN_SIZE cells
firstIndex(x, y) == BitAnd(x, BN_SIZE - 1) + BitAnd(y, BN_SIZE - 1) * BN_SIZE
secondIndex(x, y) ==
  BitAnd(x + 37, BN_SIZE - 1) + BitAnd(y + 17, BN_SIZE - 1) * BN_SIZE

\* A dither that adds the two samples without centring the sum on 0
getDitherValue_Uncentred(x, y, mode, amp, cache, runs) ==
  IF mode = "blue-noise"
    THEN With(getBlueNoise(cache, runs), LAMBDA got :
           LET bn == got.array.data
               u1 == (bn[firstIndex(x, y) + 1] * ONE) \div 255
               u2 == (bn[secondIndex(x, y) + 1] * ONE)
                       \div 255
           IN  [value |-> Mul(u1 + u2, amp), cache |-> got.cache, runs |-> got.runs,
                array |-> Some(got.array)])
    ELSE [value |-> Mul(ign(x * 100, y * 100) + ign(x * 100 + 530, y * 100 + 370), amp),
          cache |-> cache, runs |-> runs, array |-> None]

\* A dither whose value is 0 on the call that generates the blue noise
getDitherValue_ColdZero(x, y, mode, amp, cache, runs) ==
  IF mode = "blue-noise"
    THEN With(getBlueNoise(cache, runs), LAMBDA got :
           LET bn == got.array.data
               u1 == (bn[firstIndex(x, y) + 1] * ONE) \div 255
               u2 == (bn[secondIndex(x, y) + 1] * ONE)
                       \div 255
           IN  [value |-> IF cache = None THEN 0 ELSE Mul(u1 + u2 - ONE, amp),
                cache |-> got.cache, runs |-> got.runs, array |-> Some(got.array)])
    ELSE [value |-> Mul(ign(x * 100, y * 100) + ign(x * 100 + 530, y * 100 + 370) - ONE, amp),
          cache |-> cache, runs |-> runs, array |-> None]

\* getDitherValue on the cache: the value is in sRGB levels
getDitherValue(x, y, mode, amp, cache, runs) ==
  IF mode = "blue-noise"
    THEN With(getBlueNoise(cache, runs), LAMBDA got :
           LET bn == got.array.data
               u1 == (bn[firstIndex(x, y) + 1] * ONE) \div 255
               u2 == (bn[secondIndex(x, y) + 1] * ONE)
                       \div 255
           IN  [value |-> Mul(u1 + u2 - ONE, amp), cache |-> got.cache, runs |-> got.runs,
                array |-> Some(got.array)])
    ELSE LET u1 == ign(x * 100, y * 100)
             u2 == ign(x * 100 + 530, y * 100 + 370)
         IN  [value |-> Mul(u1 + u2 - ONE, amp), cache |-> cache, runs |-> runs,
              array |-> None]

(***************************************************************************)
(* renderBackgroundPixels (engine.ts), one pixel at a time.                *)
(***************************************************************************)
\* The design coordinate of physical pixel p along an axis
DesignCoord(p, designSize, physicalSize) == (p * designSize) \div physicalSize

\* The body of  for (const layer of resolved.layers)  for one layer
compositeLayer(accumulated, layer, x, y, width, height) ==
  With(sampleLayerColor(layer, x, y, width, height), LAMBDA sampled :
    IF sampled = None THEN accumulated
    ELSE compositeLinear(accumulated, sampled[1], layer.blendMode))

\* The loop over the first n layers, from the base color
RECURSIVE compositeLayers(_, _, _, _, _, _)
compositeLayers(resolved, n, x, y, width, height) ==
  IF n = 0 THEN resolved.baseColor
  ELSE compositeLayer(compositeLayers(resolved, n - 1, x, y, width, height),
                      resolved.layers[n], x, y, width, height)

\* Pixel bytes from sRGB levels rounded before grain and dither are added
pixelBytes_RoundsFirst(resolved, color, x, y, ditherNoise) ==
  With(clampLinearRgba(color), LAMBDA accumulated :
  With(computeGrainSrgb(resolved.grain, x, y), LAMBDA grainNoise :
    LET sR == quantizeChannel(linearToSrgb8(accumulated.r)) * LSB
                + (IF grainNoise = None THEN 0 ELSE grainNoise[1].r)
        sG == quantizeChannel(linearToSrgb8(accumulated.g)) * LSB
                + (IF grainNoise = None THEN 0 ELSE grainNoise[1].g)
        sB == quantizeChannel(linearToSrgb8(accumulated.b)) * LSB
                + (IF grainNoise = None THEN 0 ELSE grainNoise[1].b)
    IN  << quantizeChannel(sR + ditherNoise),
           quantizeChannel(sG + ditherNoise),
           quantizeChannel(sB + ditherNoise),
           IF resolved.opaque THEN 255
           ELSE quantizeChannel((accumulated.a * 255 * LSB) \div ONE) >>))

\* Pixel bytes whose alpha is dithered like the color channels
pixelBytes_DitheredAlpha(resolved, color, x, y, ditherNoise) ==
  With(clampLinearRgba(color), LAMBDA accumulated :
  With(computeGrainSrgb(resolved.grain, x, y), LAMBDA grainNoise :
    LET sR == linearToSrgb8(accumulated.r)
                + (IF grainNoise = None THEN 0 ELSE grainNoise[1].r)
        sG == linearToSrgb8(accumulated.g)
                + (IF grainNoise = None THEN 0 ELSE grainNoise[1].g)
        sB == linearToSrgb8(accumulated.b)
                + (IF grainNoise = None THEN 0 ELSE grainNoise[1].b)
    IN  << quantizeChannel(sR + ditherNoise),
           quantizeChannel(sG + ditherNoise),
           quantizeChannel(sB + ditherNoise),
           IF resolved.opaque THEN 255
           ELSE quantizeChannel((accumulated.a * 255 * LSB) \div ONE + ditherNoise) >>))

\* The four bytes of a pixel from its accumulated color: clamp, sRGB, global
\* grain at the design coordinate, dither, quantize.
pixelBytes(resolved, color, x, y, ditherNoise) ==
  With(clampLinearRgba(color), LAMBDA accumulated :
  With(computeGrainSrgb(resolved.grain, x, y), LAMBDA grainNoise :
    LET sR == linearToSrgb8(accumulated.r)
                + (IF grainNoise = None THEN 0 ELSE grainNoise[1].r)
        sG == linearToSrgb8(accumulated.g)
                + (IF grainNoise = None THEN 0 ELSE grainNoise[1].g)
        sB == linearToSrgb8(accumulated.b)
                + (IF grainNoise = None THEN 0 ELSE grainNoise[1].b)
    IN  << quantizeChannel(sR + ditherNoise),
           quantizeChannel(sG + ditherNoise),
           quantizeChannel(sB + ditherNoise),
           IF resolved.opaque THEN 255
           ELSE quantizeChannel((accumulated.a * 255 * LSB) \div ONE) >>))

\* The dither noise of a physical pixel
ditherNoiseAt(resolved, px, py) ==
  IF resolved.ditherMode = "none" THEN 0
  ELSE getDitherValue(px, py, resolved.ditherMode, resolved.ditherAmplitude, None, 0).value

\* The whole buffer of a call that resolved its arguments
renderBackgroundPixels(resolved, canvas) ==
  With(Array([pixel \in 1..(canvas.physicalWidth * canvas.physicalHeight) |->
          LET px == (pixel - 1) % canvas.physicalWidth
              py == (pixel - 1) \div canvas.physicalWidth
              x == DesignCoord(px, canvas.designWidth, canvas.physicalWidth)
              y == DesignCoord(py, canvas.designHeight, canvas.physicalHeight)
          IN  pixelBytes(resolved,
                         compositeLayers(resolved, Len(resolved.layers), x, y,
                                         canvas.designWidth, canvas.designHeight),
                         x, y, ditherNoiseAt(resolved, px, py))]),
       LAMBDA pixels :
    Array([i \in 1..(Len(pixels) * 4) |-> pixels[((i - 1) \div 4) + 1][((i - 1) % 4) + 1]]))

(***************************************************************************)
(* WebGL capability and the fragment shader's output (webgl.ts).           *)
(***************************************************************************)
MAX_LAYERS == 6
MAX_STOPS == 4

\* A check that looks at the stops before the layer count
canRenderResolvedWithWebGL_StopsFirst(resolved) ==
  IF \E i \in 1..Len(resolved.layers) : Len(resolved.layers[i].stops) > MAX_STOPS
    THEN [supported |-> FALSE, reason |-> Some([about |-> "stops", limit |-> MAX_STOPS])]
    ELSE IF Len(resolved.layers) > MAX_LAYERS
      THEN [supported |-> FALSE, reason |-> Some([about |-> "layers", limit |-> MAX_LAYERS])]
      ELSE [supported |-> TRUE, reason |-> None]

\* A check that accepts everything
canRenderResolvedWithWebGL_NoLimit(resolved) == [supported |-> TRUE, reason |-> None]

\* A reason is the template of its message: what it is about, the limit and
\* what was received.
canRenderResolvedWithWebGL(resolved) ==
  IF Len(resolved.layers) > MAX_LAYERS
    THEN [supported |-> FALSE,
          reason |-> Some([about |-> "layers", limit |-> MAX_LAYERS,
                           received |-> Len(resolved.layers)])]
    ELSE IF \E i \in 1..Len(resolved.layers) : Len(resolved.layers[i].stops) > MAX_STOPS
      THEN LET i == CHOOSE k \in 1..Len(resolved.layers) :
                      /\ Len(resolved.layers[k].stops) > MAX_STOPS
                      /\ \A j \in 1..(k - 1) : Len(resolved.layers[j].stops) <= MAX_STOPS
           IN  [supported |-> FALSE,
                reason |-> Some([about |-> "stops", limit |-> MAX_STOPS, layer |-> i - 1,
                                 received |-> Len(resolved.layers[i].stops)])]
      ELSE [supported |-> TRUE, reason |-> None]

\* An answer that counts the layers given before resolving them
canRenderBackgroundWithWebGL_CountsFirst(args) ==
  IF Len(OrElse(args.layers, <<>>)) > MAX_LAYERS
    THEN [raised |-> FALSE, supported |-> FALSE,
          reason |-> Some([about |-> "layers", limit |-> MAX_LAYERS,
                           received |-> Len(OrElse(args.layers, <<>>))])]
    ELSE With(resolveBackgroundArgs(args), LAMBDA resolved :
           IF resolved.raised THEN [raised |-> TRUE, error |-> resolved.error]
           ELSE [raised |-> FALSE,
                 supported |-> canRenderResolvedWithWebGL(resolved).supported,
                 reason |-> canRenderResolvedWithWebGL(resolved).reason])

\* The result is [raised |-> TRUE, error] when resolution throws.
canRenderBackgroundWithWebGL(args) ==
  With(resolveBackgroundArgs(args), LAMBDA resolved :
    IF resolved.raised THEN [raised |-> TRUE, error |-> resolved.error]
    ELSE [raised |-> FALSE,
          supported |-> canRenderResolvedWithWebGL(resolved).supported,
          reason |-> canRenderResolvedWithWebGL(resolved).reason])

\* The fragment shader's main for the fragment whose gl_FragCoord floors to
\* (fragX, fragY): window coordinates, row 0 at the bottom of the drawing
\* buffer.  The layer and color functions of the shader are taken to compute
\* what their CPU namesakes compute.
shaderMain(resolved, canvas, fragX, fragY) ==
  LET designX == DesignCoord(fragX, canvas.designWidth, Max2(1, canvas.physicalWidth))
      designY == DesignCoord(fragY, canvas.designHeight, Max2(1, canvas.physicalHeight))
  IN  pixelBytes(resolved,
                 compositeLayers(resolved, Len(resolved.layers), designX, designY,
                                 canvas.designWidth, canvas.designHeight),
                 designX, designY, ditherNoiseAt(resolved, fragX, fragY))

\* drawImage(scratchCanvas, ...) into the target: the drawing buffer's top
\* row, the fragments with the largest y, becomes row 0 of the image.
drawnImage(resolved, canvas) ==
  With(Array([pixel \in 1..(canvas.physicalWidth * canvas.physicalHeight) |->
          LET px == (pixel - 1) % canvas.physicalWidth
              py == (pixel - 1) \div canvas.physicalWidth
          IN  shaderMain(resolved, canvas, px, canvas.physicalHeight - 1 - py)]),
       LAMBDA pixels :
    Array([i \in 1..(Len(pixels) * 4) |-> pixels[((i - 1) \div 4) + 1][((i - 1) % 4) + 1]]))

(***************************************************************************)
(* The uniforms packLayerUniforms hands to the shader.  A Float32Array is  *)
(* a function from its offsets to floats; of the nineteen arrays the model *)
(* keeps the ones that carry the stop count, the exponents and the stops.  *)
(***************************************************************************)
Float32Array(length) == [offset \in 0..(length - 1) |-> 0]

\* A store past the end of a typed array is dropped.
setVec4(target, index, x, y, z, w) ==
  [offset \in DOMAIN target |->
     IF offset = index * 4 THEN x
     ELSE IF offset = index * 4 + 1 THEN y
     ELSE IF offset = index * 4 + 2 THEN z
     ELSE IF offset = index * 4 + 3 THEN w
     ELSE target[offset]]

setRgba(target, index, r, g, b, a) == setVec4(target, index, r, g, b, a)

\* The offsets one setVec4 call stores to
StoredOffsets(index) == {index * 4 + k : k \in 0..3}

\* A packing that leaves the slots after the last stop at zero
SlotStop_NoRepeat(layer, stopSlot) ==
  IF stopSlot < Len(layer.stops) THEN layer.stops[stopSlot + 1]
  ELSE [position |-> 0, color |-> [r |-> 0, g |-> 0, b |-> 0, a |-> 0], lab |-> <<0, 0, 0>>]

\* The stop copied to a slot of a layer:  layer.stops[Math.min(stopSlot,
\* stopCount - 1)]
SlotStop(layer, stopSlot) ==
  layer.stops[Min2(stopSlot, Min2(MAX_STOPS, Len(layer.stops)) - 1) + 1]

StopColorsOf(target, layerIndex, stop) ==
  setRgba(target, layerIndex, stop.color.r, stop.color.g, stop.color.b, stop.color.a)

\* The body of  for (let layerIndex = 0; ...)  from layerIndex to the end;
\* stored collects the offsets of the stores.
RECURSIVE packLayers(_, _, _, _, _)
packLayers(packed, resolved, layerIndex, designWidth, designHeight) ==
  IF layerIndex >= Len(resolved.layers) THEN packed
  ELSE
    With(resolved.layers[layerIndex + 1], LAMBDA layer :
    With([packed EXCEPT
            !.layerMeta2 =
               setVec4(@, layerIndex, layer.shadow.startIntensity,
                       layer.shadow.endIntensity, layer.shadow.curve,
                       Min2(MAX_STOPS, Len(layer.stops))),
            !.layerLinear3 =
               IF layer.layer.type # "linear" THEN @
               ELSE IF IsFinite(layer.layer.startX) /\ IsFinite(layer.layer.startY)
                       /\ IsFinite(layer.layer.endX) /\ IsFinite(layer.layer.endY)
                 THEN setVec4(@, layerIndex, 0,
                              MaxEpsilon(OrElse(layer.layer.easing, ONE)), 0, 0)
                 ELSE setVec4(@, layerIndex,
                              MaxEpsilon(
                                Abs(Mul(designWidth, SinDeg(OrElse(layer.layer.angle, 180))))
                                  + Abs(Mul(designHeight,
                                            CosDeg(OrElse(layer.layer.angle, 180))))) \div 2,
                              MaxEpsilon(OrElse(layer.layer.easing, ONE)), 0, 0),
            !.layerRadial2 =
               IF layer.layer.type # "radial" THEN @
               ELSE setVec4(@, layerIndex, OrElse(layer.layer.innerRadius, 0),
                            OrElse(layer.layer.outerRadius, ONE),
                            MaxEpsilon(OrElse(layer.layer.falloff, ONE)),
                            OrElse(layer.layer.power, 2 * ONE)),
            !.stored = @ \cup StoredOffsets(layerIndex)],
         LAMBDA withMeta :
      packLayers(
        IF Len(layer.stops) = 0 THEN withMeta
        ELSE [withMeta EXCEPT
                !.stopPos = setVec4(@, layerIndex, SlotStop(layer, 0).position,
                                    SlotStop(layer, 1).position,
                                    SlotStop(layer, 2).position,
                                    SlotStop(layer, 3).position),
                !.stopColor0 = StopColorsOf(@, layerIndex, SlotStop(layer, 0)),
                !.stopColor1 = StopColorsOf(@, layerIndex, SlotStop(layer, 1)),
                !.stopColor2 = StopColorsOf(@, layerIndex, SlotStop(layer, 2)),
                !.stopColor3 = StopColorsOf(@, layerIndex, SlotStop(layer, 3))],
        resolved, layerIndex + 1, designWidth, designHeight)))

packLayerUniforms(resolved, designWidth, designHeight) ==
  packLayers([layerMeta2 |-> Float32Array(MAX_LAYERS * 4),
              layerLinear3 |-> Float32Array(MAX_LAYERS * 4),
              layerRadial2 |-> Float32Array(MAX_LAYERS * 4),
              stopPos |-> Float32Array(MAX_LAYERS * 4),
              stopColor0 |-> Float32Array(MAX_LAYERS * 4),
              stopColor1 |-> Float32Array(MAX_LAYERS * 4),
              stopColor2 |-> Float32Array(MAX_LAYERS * 4),
              stopColor3 |-> Float32Array(MAX_LAYERS * 4),
              stored |-> {}],
             resolved, 0, designWidth, designHeight)

\* The shader's  pow(clamp01(rawT), max(EPS, linear3.y))  and
\* pow(rawT, max(EPS, radial2.z))  for a layer's uniforms
shaderLinearT(rawT, linear3y) == Pow(clamp01(rawT), MaxEpsilon(linear3y))
shaderRadialT(rawT, radial2z) == Pow(rawT, MaxEpsilon(radial2z))

\* DitheredBackground: const shouldTryWebGL = ...
shouldTryWebGL(renderer) == renderer = "auto" \/ renderer = "webgl"

(***************************************************************************)
(* The state.  Each variable is the state of one part of the program.      *)
(***************************************************************************)
VARIABLES
  resolving,  \* a caller of resolveBackgroundArgs: its arguments and the result
  noise,      \* dither.ts module state (the blue-noise cache) and its callers
  render,     \* a call of renderBackgroundPixels, pixel by pixel
  effect,     \* a run of the framework render effect and the WebGL renderer
  api         \* a call of one exported function: its arguments and its result

vars == << resolving, noise, render, effect, api >>

(***************************************************************************)
(* Inputs of layer resolution.                                             *)
(***************************************************************************)
Black == <<"#", "0", "0", "0", "0", "0", "0">>
White == <<"#", "f", "f", "f">>
HalfGreen == <<" ", "0", "0", "F", "F", "0", "0", "8", "0", " ">>
BadLength == <<"#", "1", "2", "3", "4", "5">>
BadDigit == <<"#", "g", "g", "g">>
GoodColors == {Black, White, HalfGreen}
BadColors == {BadLength, BadDigit}

\* A linear layer with every optional field undefined
PlainLayer ==
  [type |-> "linear", stops |-> None, colors |-> None, midpoint |-> None,
   opacity |-> None, blendMode |-> None, colorSpace |-> None, shadow |-> None,
   grain |-> None, angle |-> None, easing |-> None,
   startX |-> None, startY |-> None, endX |-> None, endY |-> None]

PlainArgs ==
  [preset |-> None, baseColor |-> None, layers |-> None, grain |-> None,
   dither |-> None, opaque |-> None]

\* Sequences over S of length at most n
SeqsUpTo(S, n) == UNION {[1..k -> S] : k \in 0..n}

\* The longest explicit stops list resolution is given
MaxStopList == 2

StopPositions == {0 - ONE \div 2, 0, ONE \div 4, ONE \div 2, ONE + ONE \div 2}
StopInputs ==
  [position : StopPositions, color : {Black, White, BadDigit}, alpha : {None}]
    \cup [position : {ONE \div 4}, color : {White}, alpha : {Some(ONE \div 2), Some(2 * ONE)}]

OneLayer(layer) == [PlainArgs EXCEPT !.layers = Some(<<layer>>)]

\* explicit stops, with and without the shorthand next to them
StopArgs ==
  {OneLayer([PlainLayer EXCEPT !.stops = Some(s), !.colors = c[1], !.midpoint = c[2]]) :
     s \in SeqsUpTo(StopInputs, MaxStopList),
     c \in {<<None, None>>,
            <<Some([start |-> Some(White), mid |-> Some(HalfGreen), end |-> Some(Black)]),
              Some(ONE \div 4)>>}}

\* the start/mid/end shorthand
ShorthandArgs ==
  {OneLayer([PlainLayer EXCEPT !.colors = Some([start |-> s, mid |-> m, end |-> e]),
                               !.midpoint = p]) :
     s \in {None, Some(White), Some(BadLength)},
     m \in {None, Some(<<>>), Some(HalfGreen), Some(BadDigit)},
     e \in {None, Some(Black), Some(<<>>)},
     p \in {None, Some(0 - ONE), Some(ONE \div 4), Some(2 * ONE)}}
    \cup {OneLayer([PlainLayer EXCEPT !.midpoint = p]) : p \in {None, Some(ONE \div 4)}}

GrainInputs ==
  {None} \cup
  {Some([amount |-> a, scale |-> s, seed |-> None, monochrome |-> None]) :
     a \in {None, Some(0 - ONE), Some(0), Some(1), Some(ONE \div 2), Some(ONE), Some(2 * ONE)},
     s \in {None, Some(ONE)}}

\* global and per-layer grain
GrainArgs ==
  {[PlainArgs EXCEPT !.grain = g, !.layers = Some(<<[PlainLayer EXCEPT !.grain = h]>>)] :
     g \in GrainInputs, h \in GrainInputs}

\* preset, dither, opacity flag and base color
SettingArgs ==
  {[PlainArgs EXCEPT !.preset = p, !.dither = d, !.opaque = o, !.baseColor = c] :
     p \in {None, Some("video"), Some("still")},
     d \in {None} \cup
           {Some([mode |-> m, amplitude |-> a]) :
              m \in {None, Some("none"), Some("ign"), Some("blue-noise")},
              a \in {None, Some(0 - LSB), Some(2 * LSB)}},
     o \in {None, Some(TRUE), Some(FALSE)},
     c \in {None} \cup {Some(k) : k \in GoodColors \cup BadColors}}

ResolveInputs == StopArgs \cup ShorthandArgs \cup GrainArgs \cup SettingArgs

NoiseIdle == [cache |-> None, runs |-> 0, calls |-> 0, needed |-> FALSE,
              first |-> None, last |-> None, value |-> 0]

(***************************************************************************)
(* Layer resolution as a state machine: a caller holds arguments and calls *)
(* resolveBackgroundArgs on them.                                          *)
(***************************************************************************)
ResolvingIdle == [args |-> PlainArgs, result |-> None]
RenderIdle == [phase |-> "unused"]
EffectIdle == [pc |-> "unused"]

InitResolve ==
  /\ resolving \in [args : ResolveInputs, result : {None}]
  /\ noise = NoiseIdle
  /\ render = RenderIdle
  /\ effect = EffectIdle
  /\ api = [fn |-> "none"]

Resolve ==
  /\ resolving.result = None
  /\ resolving' = [args |-> argsAfterResolve(resolving.args),
                   result |-> Some(resolveBackgroundArgs(resolving.args))]
  /\ UNCHANGED << noise, render, effect, api >>

NextResolve == Resolve

SpecResolve == InitResolve /\ [][NextResolve]_vars

\* The layers of the arguments being resolved, and the result when the call
\* returned one
InLayers == OrElse(resolving.args.layers, <<>>)
Returned == resolving.result # None /\ ~resolving.result[1].raised
OutLayers == resolving.result[1].layers
HasExplicitStops(layer) == layer.stops # None /\ Len(layer.stops[1]) > 0

\* C7: for every layer with a non-empty explicit stops list, whatever its
\* order, its duplicates and its positions outside [0,1], the prepared stops
\* are as many as the input stops, every position lies in [0,1], and the
\* positions ascend.
C7_PreparedStopsSorted ==
  Returned =>
    \A i \in 1..Len(InLayers) :
      HasExplicitStops(InLayers[i]) =>
        LET out == OutLayers[i].stops
        IN  /\ Len(out) = Len(InLayers[i].stops[1])
            /\ \A k \in 1..Len(out) : out[k].position >= 0 /\ out[k].position <= ONE
            /\ \A k \in 1..(Len(out) - 1) : out[k].position <= out[k + 1].position

\* C7 witness: a list given in descending order with both positions outside
\* [0,1] has been resolved.
C7_Witness ==
  /\ Returned
  /\ Len(InLayers) = 1
  /\ HasExplicitStops(InLayers[1])
  /\ Len(InLayers[1].stops[1]) = 2
  /\ InLayers[1].stops[1][1].position = ONE + ONE \div 2
  /\ InLayers[1].stops[1][2].position = 0 - ONE \div 2
  /\ OutLayers[1].stops[1].position = 0
  /\ OutLayers[1].stops[2].position = ONE

MidGiven(layer) ==
  /\ layer.colors # None
  /\ layer.colors[1].mid # None
  /\ layer.colors[1].mid[1] # <<>>

\* C8: with a non-empty explicit stops list the prepared stops come from it
\* alone and colors/midpoint are ignored; otherwise the shorthand gives
\* exactly 2 stops at 0 and 1 when no mid color is given, and exactly 3 stops
\* at 0, clamp(midpoint, 0, 1) (default 0.5) and 1 when one is.
C8_StopDerivation ==
  Returned =>
    \A i \in 1..Len(InLayers) :
      LET in == InLayers[i]
          out == OutLayers[i].stops
      IN  IF HasExplicitStops(in)
            THEN /\ Len(out) = Len(in.stops[1])
                 /\ \A k \in 1..Len(out) :
                      \E j \in 1..Len(in.stops[1]) :
                        /\ out[k].position = clamp(in.stops[1][j].position, 0, ONE)
                        /\ out[k].color = toPreparedStop(in.stops[1][j]).color
            ELSE IF MidGiven(in)
              THEN /\ Len(out) = 3
                   /\ out[1].position = 0
                   /\ out[2].position = clamp(OrElse(in.midpoint, ONE \div 2), 0, ONE)
                   /\ out[3].position = ONE
                   /\ out[2].color = toPreparedStop([position |-> 0, color |-> in.colors[1].mid[1],
                                                     alpha |-> None]).color
              ELSE /\ Len(out) = 2
                   /\ out[1].position = 0
                   /\ out[2].position = ONE

\* C8 witness: a layer that gives both two explicit stops and the shorthand
\* with a mid color has been resolved.
C8_Witness ==
  /\ Returned
  /\ Len(InLayers) = 1
  /\ HasExplicitStops(InLayers[1])
  /\ Len(InLayers[1].stops[1]) = 2
  /\ MidGiven(InLayers[1])
  /\ Len(OutLayers[1].stops) = 2

GrainIsOff(grain) == grain = None \/ OrElse(grain[1].amount, 0) <= 0
GrainRule(in, out) ==
  /\ (out = None) <=> GrainIsOff(in)
  /\ out # None => out[1].amount > 0 /\ out[1].amount <= ONE

\* C9: the resolved grain, global or per layer, is null exactly when the
\* grain is absent or its amount (default 0) is at most 0; otherwise its
\* amount is in (0, 1].  No resolved grain has amount 0.
C9_GrainNullOrPositive ==
  Returned =>
    /\ GrainRule(resolving.args.grain, resolving.result[1].grain)
    /\ \A i \in 1..Len(InLayers) : GrainRule(InLayers[i].grain, OutLayers[i].grain)

\* C9 witness: a global grain of amount 0 resolved to null next to a layer
\* grain of amount 2 resolved to amount 1.
C9_Witness ==
  /\ Returned
  /\ resolving.args.grain # None
  /\ resolving.args.grain[1].amount = Some(0)
  /\ resolving.result[1].grain = None
  /\ Len(InLayers) = 1
  /\ InLayers[1].grain # None
  /\ InLayers[1].grain[1].amount = Some(2 * ONE)
  /\ OutLayers[1].grain # None
  /\ OutLayers[1].grain[1].amount = ONE

(***************************************************************************)
(* The blue-noise cache as a state machine: callers call the two exported  *)
(* functions of dither.ts that reach getBlueNoise.                         *)
(***************************************************************************)
\* The calls one process makes
MaxNoiseCalls == 3
\* The largest pixel coordinate a caller asks a dither value for
MaxNoiseCoord == 4

InitNoise ==
  /\ noise = NoiseIdle
  /\ resolving = ResolvingIdle
  /\ render = RenderIdle
  /\ effect = EffectIdle
  /\ api = [fn |-> "none"]

\* One call's effect on the module state; array is None when the call did
\* not read the blue-noise array.
AfterNoiseCall(cache, runs, array, needs, value) ==
  [cache |-> cache, runs |-> runs, calls |-> noise.calls + 1,
   needed |-> noise.needed \/ needs,
   first |-> IF noise.first = None THEN array ELSE noise.first,
   last |-> IF array = None THEN noise.last ELSE array,
   value |-> value]

CallGetBlueNoiseTexture64 ==
  /\ noise.calls < MaxNoiseCalls
  /\ LET got == getBlueNoiseTexture64(noise.cache, noise.runs)
     IN  noise' = AfterNoiseCall(got.cache, got.runs, Some(got.array), TRUE, noise.value)
  /\ UNCHANGED << resolving, render, effect, api >>

CallGetDitherValue ==
  /\ noise.calls < MaxNoiseCalls
  /\ \E x \in 0..MaxNoiseCoord, y \in 0..MaxNoiseCoord,
        mode \in {"ign", "blue-noise"}, amp \in {LSB, (135 * LSB) \div 100} :
       LET got == getDitherValue(x, y, mode, amp, noise.cache, noise.runs)
       IN  noise' = AfterNoiseCall(got.cache, got.runs, got.array,
                                   mode = "blue-noise", got.value)
  /\ UNCHANGED << resolving, render, effect, api >>

NextNoise == CallGetBlueNoiseTexture64 \/ CallGetDitherValue

SpecNoise == InitNoise /\ [][NextNoise]_vars

\* C5: over any calls of getBlueNoiseTexture64 and getDitherValue,
\* generateBlueNoise runs at most once, never before a call that needs blue
\* noise, and every call that reads the array gets the same array object
\* with the contents it was generated with.
C5_BlueNoiseOnce ==
  /\ noise.runs <= 1
  /\ noise.runs = 1 <=> noise.needed
  /\ noise.last # None =>
       /\ noise.last = noise.first
       /\ noise.cache = noise.last
       /\ noise.last[1].data = generateBlueNoise

\* C5 witness: three calls were made, ign dither first, and the later calls
\* read the array.
C5_Witness ==
  /\ noise.calls = MaxNoiseCalls
  /\ noise.runs = 1
  /\ noise.last # None
  /\ noise.last = noise.first

(***************************************************************************)
(* Inputs of rendering: layers of the three types with ordinary and with   *)
(* extreme numeric fields, and canvases.                                   *)
(***************************************************************************)
RadialLayer ==
  [type |-> "radial", stops |-> None, colors |-> None, midpoint |-> None,
   opacity |-> None, blendMode |-> None, colorSpace |-> None, shadow |-> None,
   grain |-> None, centerX |-> None, centerY |-> None, radiusX |-> None,
   radiusY |-> None, innerRadius |-> None, outerRadius |-> None,
   falloff |-> None, power |-> None]

BoxLayer ==
  [type |-> "box", stops |-> None, colors |-> None, midpoint |-> None,
   opacity |-> None, blendMode |-> None, colorSpace |-> None, shadow |-> None,
   grain |-> None, x |-> None, y |-> None, width |-> None, height |-> None,
   radius |-> None, spread |-> None, blur |-> None, inset |-> None,
   offsetX |-> None, offsetY |-> None]

Shorthand(start, end) == Some([start |-> Some(start), mid |-> None, end |-> Some(end)])

RampLayer == [PlainLayer EXCEPT !.colors = Shorthand(Black, White)]

PointsLayer ==
  [PlainLayer EXCEPT
     !.startX = Some(0), !.startY = Some(0), !.endX = Some(4 * CU), !.endY = Some(0),
     !.stops = Some(<< [position |-> ONE, color |-> White, alpha |-> None],
                       [position |-> 0, color |-> Black, alpha |-> None],
                       [position |-> ONE \div 2, color |-> HalfGreen, alpha |-> None] >>),
     !.colorSpace = Some("linear-srgb"), !.easing = Some(2 * ONE),
     !.blendMode = Some("add")]

\* negative radius, inner radius above the outer one, negative falloff,
\* opacity above 1
ExtremeRadialLayer ==
  [RadialLayer EXCEPT
     !.colors = Shorthand(White, Black), !.radiusX = Some(0 - CU),
     !.innerRadius = Some(ONE), !.outerRadius = Some(0), !.falloff = Some(0 - ONE),
     !.power = Some(4 * ONE), !.blendMode = Some("screen"),
     !.opacity = Some((3 * ONE) \div 2)]

InsetBoxLayer ==
  [BoxLayer EXCEPT
     !.colors = Shorthand(Black, White), !.x = Some(0), !.y = Some(0),
     !.width = Some(3 * CU), !.height = Some(2 * CU), !.radius = Some(CU),
     !.spread = Some(CU \div 2), !.blur = Some(2 * CU), !.blendMode = Some("multiply"),
     !.shadow = Some([startIntensity |-> Some(ONE \div 2), endIntensity |-> Some(0 - ONE),
                      curve |-> Some(0)])]

\* negative blur and spread, zero width
ExtremeOuterBoxLayer ==
  [BoxLayer EXCEPT
     !.colors = Shorthand(White, White), !.x = Some(CU), !.width = Some(0),
     !.height = Some(CU), !.spread = Some(0 - CU), !.blur = Some(0 - CU),
     !.inset = Some(FALSE), !.opacity = Some(ONE \div 2)]

\* an opaque constant layer in normal blend mode
CoverLayer ==
  [PlainLayer EXCEPT !.stops = Some(<< [position |-> 2 * ONE, color |-> White,
                                        alpha |-> None] >>)]

GrainyLayer ==
  [PlainLayer EXCEPT
     !.colors = Shorthand(HalfGreen, White),
     !.grain = Some([amount |-> Some(ONE \div 4), scale |-> None, seed |-> Some(3),
                     monochrome |-> Some(FALSE)])]

HiddenLayer == [PlainLayer EXCEPT !.colors = Shorthand(White, White), !.opacity = Some(0 - ONE)]

BadStopLayer == [PlainLayer EXCEPT !.colors = Shorthand(White, BadDigit)]

LayerTemplates ==
  {RampLayer, PointsLayer, ExtremeRadialLayer, InsetBoxLayer, ExtremeOuterBoxLayer,
   CoverLayer, GrainyLayer, HiddenLayer, BadStopLayer}

\* The most layers a rendered configuration has
MaxRenderLayers == 2

LayeredArgs ==
  {[PlainArgs EXCEPT !.layers = Some(ls)] : ls \in SeqsUpTo(LayerTemplates, MaxRenderLayers)}

RenderSettingArgs ==
  {[PlainArgs EXCEPT !.preset = p, !.dither = d, !.grain = g, !.opaque = o, !.baseColor = c] :
     p \in {None, Some("still")},
     d \in {None, Some([mode |-> Some("none"), amplitude |-> None]),
            Some([mode |-> Some("blue-noise"), amplitude |-> Some(2 * LSB)])},
     g \in {None, Some([amount |-> Some(ONE \div 4), scale |-> Some(0 - ONE),
                        seed |-> None, monochrome |-> Some(FALSE)])},
     o \in {None, Some(TRUE), Some(FALSE)},
     c \in {None, Some(HalfGreen), Some(BadLength)}}

\* Two layers with partial coverage, one per blend mode, over a translucent
\* base color
TranslucentArgs ==
  {[PlainArgs EXCEPT !.baseColor = Some(HalfGreen), !.opaque = Some(FALSE),
                     !.layers = Some(ls)] :
     ls \in [1..2 -> {PointsLayer, ExtremeRadialLayer, InsetBoxLayer,
                      ExtremeOuterBoxLayer}]}

RenderInputs == LayeredArgs \cup RenderSettingArgs \cup TranslucentArgs

\* design width and height (CU), physical width and height (pixels)
RenderCanvases ==
  { [designWidth |-> CU, designHeight |-> CU, physicalWidth |-> 1, physicalHeight |-> 1],
    [designWidth |-> 4 * CU, designHeight |-> 2 * CU, physicalWidth |-> 2, physicalHeight |-> 2],
    [designWidth |-> 3 * CU, designHeight |-> 2 * CU, physicalWidth |-> 3, physicalHeight |-> 2] }

(***************************************************************************)
(* renderBackgroundPixels as a state machine: the call resolves its        *)
(* arguments and allocates the buffer, then visits the pixels row by row;  *)
(* at each pixel it composites the layers one by one, then writes the four *)
(* bytes.                                                                  *)
(***************************************************************************)
\* The call is made on a module whose blue noise has not been generated, or
\* has been by an earlier call.
InitRender ==
  /\ \E a \in RenderInputs, c \in RenderCanvases :
       render = [phase |-> "called", args |-> a, canvas |-> c]
  /\ noise \in {NoiseIdle,
                [cache |-> Some([id |-> 1, data |-> generateBlueNoise]), runs |-> 1,
                 calls |-> 1, needed |-> TRUE,
                 first |-> Some([id |-> 1, data |-> generateBlueNoise]),
                 last |-> Some([id |-> 1, data |-> generateBlueNoise]), value |-> 0]}
  /\ resolving = ResolvingIdle
  /\ effect = EffectIdle
  /\ api = [fn |-> "none"]

RenderStart ==
  /\ render.phase = "called"
  /\ LET resolved == resolveBackgroundArgs(render.args)
         size == render.canvas.physicalWidth * render.canvas.physicalHeight * 4
     IN  IF resolved.raised
           THEN render' = [phase |-> "raised", args |-> argsAfterResolve(render.args),
                           canvas |-> render.canvas, error |-> resolved.error]
           ELSE render' = [phase |-> IF size = 0 THEN "returned" ELSE "pixel",
                           args |-> argsAfterResolve(render.args),
                           canvas |-> render.canvas,
                           resolved |-> resolved,
                           pixelData |-> [i \in 1..size |-> 0],
                           px |-> 0, py |-> 0, layerIndex |-> 1,
                           accumulated |-> resolved.baseColor]
  /\ UNCHANGED << resolving, noise, effect, api >>

\* One iteration of  for (const layer of resolved.layers)
LayerStep ==
  /\ render.phase = "pixel"
  /\ render.layerIndex <= Len(render.resolved.layers)
  /\ LET c == render.canvas
         x == DesignCoord(render.px, c.designWidth, c.physicalWidth)
         y == DesignCoord(render.py, c.designHeight, c.physicalHeight)
     IN  render' = [render EXCEPT
                      !.layerIndex = @ + 1,
                      !.accumulated =
                         compositeLayer(@, render.resolved.layers[render.layerIndex],
                                        x, y, c.designWidth, c.designHeight)]
  /\ UNCHANGED << resolving, noise, effect, api >>

\* The rest of the pixel's iteration: clamp, dither, global grain, quantize,
\* store, and move to the next pixel or return.
PixelFinish ==
  /\ render.phase = "pixel"
  /\ render.layerIndex > Len(render.resolved.layers)
  /\ LET resolved == render.resolved
         c == render.canvas
         index == (render.py * c.physicalWidth + render.px) * 4
         x == DesignCoord(render.px, c.designWidth, c.physicalWidth)
         y == DesignCoord(render.py, c.designHeight, c.physicalHeight)
         dither == getDitherValue(render.px, render.py, resolved.ditherMode,
                                  resolved.ditherAmplitude, noise.cache, noise.runs)
         bytes == pixelBytes(resolved, render.accumulated, x, y,
                             IF resolved.ditherMode = "none" THEN 0 ELSE dither.value)
         lastInRow == render.px + 1 = c.physicalWidth
         lastRow == render.py + 1 = c.physicalHeight
     IN  /\ render' = [render EXCEPT
                         !.pixelData = [@ EXCEPT ![index + 1] = bytes[1],
                                                 ![index + 2] = bytes[2],
                                                 ![index + 3] = bytes[3],
                                                 ![index + 4] = bytes[4]],
                         !.px = IF lastInRow THEN 0 ELSE @ + 1,
                         !.py = IF lastInRow THEN @ + 1 ELSE @,
                         !.layerIndex = 1,
                         !.accumulated = resolved.baseColor,
                         !.phase = IF lastInRow /\ lastRow THEN "returned" ELSE "pixel"]
         /\ noise' = IF resolved.ditherMode = "none" THEN noise
                     ELSE AfterNoiseCall(dither.cache, dither.runs, dither.array,
                                         resolved.ditherMode = "blue-noise", dither.value)
  /\ UNCHANGED << resolving, effect, api >>

NextRender == RenderStart \/ LayerStep \/ PixelFinish

SpecRender == InitRender /\ [][NextRender]_vars

\* The pixel being composited and its design coordinate
AtPixel == render.phase = "pixel"
PixelX == DesignCoord(render.px, render.canvas.designWidth, render.canvas.physicalWidth)
PixelY == DesignCoord(render.py, render.canvas.designHeight, render.canvas.physicalHeight)
SampledAt(i) ==
  sampleLayerColor(render.resolved.layers[i], PixelX, PixelY,
                   render.canvas.designWidth, render.canvas.designHeight)

\* The left fold of compositeLinear over the first n resolved layers from
\* the base color, skipping the layers that sample to nothing
RECURSIVE FoldLayers(_)
FoldLayers(n) ==
  IF n = 0 THEN render.resolved.baseColor
  ELSE IF SampledAt(n) = None THEN FoldLayers(n - 1)
  ELSE compositeLinear(FoldLayers(n - 1), SampledAt(n)[1],
                       render.resolved.layers[n].blendMode)

LayersDone == AtPixel /\ render.layerIndex > Len(render.resolved.layers)
LastLayerCovers ==
  /\ LayersDone
  /\ Len(render.resolved.layers) > 0
  /\ render.resolved.layers[Len(render.resolved.layers)].blendMode = "normal"
  /\ SampledAt(Len(render.resolved.layers)) # None
  /\ SampledAt(Len(render.resolved.layers))[1].a = ONE

\* C6: at every pixel the accumulated color is the left fold of
\* compositeLinear over the resolved layers in configuration order from the
\* base color, skipping layers whose mask or effective alpha is not
\* positive; when the last layer has blend mode normal and effective alpha 1
\* the accumulated RGB is that layer's sampled color whatever came before.
C6_AccumulatedIsLeftFold ==
  /\ AtPixel => render.accumulated = FoldLayers(render.layerIndex - 1)
  /\ LastLayerCovers =>
       LET top == SampledAt(Len(render.resolved.layers))[1]
       IN  /\ render.accumulated.r = top.r
           /\ render.accumulated.g = top.g
           /\ render.accumulated.b = top.b

\* C6 witness: two layers were composited at a pixel, the first one changed
\* the base color and the last one covers it.
C6_Witness ==
  /\ LastLayerCovers
  /\ Len(render.resolved.layers) = 2
  /\ SampledAt(1) # None
  /\ FoldLayers(1) # render.resolved.baseColor
  /\ FoldLayers(1) # render.accumulated

\* The color strings resolution parses: the base color and the colors of
\* the stops derived for each layer
ResolvedColorStrings(args) ==
  {OrElse(args.baseColor, DEFAULT_BASE_COLOR)}
    \cup UNION {{resolveStops(OrElse(args.layers, <<>>)[i])[k].color :
                   k \in 1..Len(resolveStops(OrElse(args.layers, <<>>)[i]))} :
                i \in 1..Len(OrElse(args.layers, <<>>))}
SomeColorUnparseable(args) ==
  \E c \in ResolvedColorStrings(args) : parseHexToRgbaBytes(c).raised

MaxEffectLayers == 7
MaxEffectStops == 5

ManyStops(s) ==
  Array([k \in 1..s |-> [position |-> (k * ONE) \div s, color |-> White, alpha |-> None]])

\* n layers, layer k with s explicit stops and the others with the two
\* stops of the shorthand
CapacityLayers(n, k, s) ==
  Array([i \in 1..n |-> IF i = k THEN [PlainLayer EXCEPT !.stops = Some(ManyStops(s))]
                        ELSE RampLayer])

CapacityArgs ==
  {[PlainArgs EXCEPT !.layers = Some(CapacityLayers(n, k, s))] :
     n \in 0..MaxEffectLayers, k \in 1..MaxEffectLayers, s \in 1..MaxEffectStops}
    \cup {[PlainArgs EXCEPT !.layers = Some(CapacityLayers(n, 1, MaxEffectStops)),
                            !.baseColor = Some(BadLength)] : n \in 0..MaxEffectLayers}
    \cup {[PlainArgs EXCEPT !.layers = Some(<<BadStopLayer>> \o CapacityLayers(n, 1, 1))] :
            n \in {0, MaxEffectLayers}}

DrawArgs ==
  {[PlainArgs EXCEPT !.layers = Some(ls), !.dither = d] :
     ls \in {<<RampLayer>>, <<RampLayer, InsetBoxLayer>>, <<CoverLayer>>},
     d \in {None, Some([mode |-> Some("none"), amplitude |-> None]),
            Some([mode |-> Some("blue-noise"), amplitude |-> None])}}

SmallCanvas ==
  [designWidth |-> CU, designHeight |-> CU, physicalWidth |-> 1, physicalHeight |-> 1]

\* One linear layer by its easing and one radial layer by its falloff
ExponentValues == {None, Some(0), Some(0 - ONE), Some(ONE \div 2), Some(ONE), Some(2 * ONE)}
ExponentArgs ==
  {OneLayer([RampLayer EXCEPT !.easing = e]) : e \in ExponentValues}
    \cup {OneLayer([RadialLayer EXCEPT !.colors = Shorthand(Black, White), !.falloff = e]) :
            e \in ExponentValues}

EffectInputs ==
  {[args |-> a, canvas |-> SmallCanvas] :
     a \in CapacityArgs \cup ExponentArgs \cup {PlainArgs, OneLayer(PointsLayer)}}
    \cup {[args |-> a, canvas |-> c] : a \in DrawArgs, c \in RenderCanvases}

\* What the WebGL renderer has done so far in its call: created and deleted
\* are the GL objects it created and the ones it passed to a gl.delete call,
\* targetOps the drawing operations on the 2D context of the target canvas
NoTrace ==
  [context2d |-> FALSE, scratch |-> FALSE, webgl |-> FALSE, objects |-> 0,
   packed |-> FALSE, draws |-> 0, warnings |-> 0, failure |-> "none",
   created |-> {}, deleted |-> {}, targetOps |-> <<>>, uniforms |-> None]

(***************************************************************************)
(* The render effect of DitheredBackground (React useEffect, Svelte        *)
(* $effect) with renderBackgroundToCanvasWebGL step by step.  What the     *)
(* host answers to a request (a context, a shader, a program, a buffer, a  *)
(* texture) is chosen when the request is made.                            *)
(***************************************************************************)
InitEffect ==
  /\ \E in \in EffectInputs, r \in {"auto", "webgl", "canvas2d"}, mounted \in BOOLEAN :
       /\ mounted \/ in.args = PlainArgs
       /\ effect = [pc |-> "scheduled", renderer |-> r, parsedArgs |-> in.args,
                 canvas |-> in.canvas, mounted |-> mounted,
                 support |-> None, webglCalls |-> 0, webglResult |-> None,
                 thrown |-> None,
                 trace |-> NoTrace, cpuCalls |-> <<>>, image |-> None]
  /\ noise = NoiseIdle
  /\ resolving = ResolvingIdle
  /\ render = RenderIdle
  /\ api = [fn |-> "none"]

\* A caller asks canRenderBackgroundWithWebGL about the configuration.
QuerySupport ==
  /\ effect.pc = "scheduled"
  /\ effect' = [effect EXCEPT !.pc = "queried",
                               !.support = Some(canRenderBackgroundWithWebGL(effect.parsedArgs))]
  /\ UNCHANGED << resolving, noise, render, api >>

\* The effect up to its first call
EffectRun ==
  /\ effect.pc = "scheduled"
  /\ effect' = IF ~effect.mounted THEN [effect EXCEPT !.pc = "done"]
               ELSE IF shouldTryWebGL(effect.renderer)
                 THEN [effect EXCEPT !.pc = "webgl-check", !.webglCalls = @ + 1]
                 ELSE [effect EXCEPT !.pc = "cpu"]
  /\ UNCHANGED << resolving, noise, render, api >>

WebGLReturn(value, trace) ==
  [effect EXCEPT !.pc = "webgl-returned", !.webglResult = Some(value), !.trace = trace]

\* renderBackgroundToCanvasWebGL: resolution and the capacity check
WebGLCheck ==
  /\ effect.pc = "webgl-check"
  /\ LET resolved == resolveBackgroundArgs(effect.parsedArgs)
     IN  effect' = IF resolved.raised
                     THEN [effect EXCEPT !.pc = "thrown", !.thrown = Some(resolved.error)]
                   ELSE IF ~canRenderResolvedWithWebGL(resolved).supported
                     THEN WebGLReturn(FALSE, effect.trace)
                     ELSE [effect EXCEPT !.pc = "webgl-contexts"]
  /\ UNCHANGED << resolving, noise, render, api >>

\* The 2D context of the target, the scratch canvas and its WebGL context
WebGLContexts ==
  /\ effect.pc = "webgl-contexts"
  /\ \E got \in {"no-2d-context", "no-document", "no-webgl-context", "all"} :
       LET trace == [effect.trace EXCEPT
                       !.context2d = got # "no-2d-context",
                       !.scratch = got \in {"no-webgl-context", "all"},
                       !.webgl = got = "all",
                       !.failure = IF got = "all" THEN @ ELSE got]
       IN  effect' = IF got = "all"
                       THEN [effect EXCEPT !.pc = "webgl-program", !.trace = trace]
                       ELSE WebGLReturn(FALSE, trace)
  /\ UNCHANGED << resolving, noise, render, api >>

\* createShaderProgram: two compileShader calls, createProgram, linkProgram.
\* objects counts the GL objects created; a compile or link failure is
\* logged with console.warn.
WebGLProgram ==
  /\ effect.pc = "webgl-program"
  /\ \E got \in {"no-vertex-shader", "vertex-compile-failed", "no-fragment-shader",
                 "fragment-compile-failed", "no-program", "link-failed", "linked"} :
       LET created == CASE got = "no-vertex-shader" -> 0
                        [] got = "vertex-compile-failed" -> 1
                        [] got = "no-fragment-shader" -> 1
                        [] got = "fragment-compile-failed" -> 2
                        [] got = "no-program" -> 2
                        [] OTHER -> 3
           warned == got \in {"vertex-compile-failed", "fragment-compile-failed",
                              "link-failed"}
           made == CASE got = "no-vertex-shader" -> {}
                     [] got \in {"vertex-compile-failed", "no-fragment-shader"} ->
                          {"vertexShader"}
                     [] got \in {"fragment-compile-failed", "no-program"} ->
                          {"vertexShader", "fragmentShader"}
                     [] OTHER -> {"vertexShader", "fragmentShader", "program"}
           freed == CASE got = "no-vertex-shader" -> {}
                      [] got = "vertex-compile-failed" -> {"vertexShader"}
                      [] got = "no-fragment-shader" -> {"vertexShader"}
                      [] got = "fragment-compile-failed" -> {"fragmentShader", "vertexShader"}
                      [] got = "no-program" -> {"vertexShader", "fragmentShader"}
                      [] got = "link-failed" -> {"program", "vertexShader", "fragmentShader"}
                      [] OTHER -> {}
           trace == [effect.trace EXCEPT
                       !.objects = @ + created,
                       !.created = @ \cup made,
                       !.deleted = @ \cup freed,
                       !.warnings = IF warned THEN @ + 1 ELSE @,
                       !.failure = IF got = "linked" THEN @ ELSE got]
       IN  effect' = IF got = "linked"
                       THEN [effect EXCEPT !.pc = "webgl-buffer", !.trace = trace]
                       ELSE WebGLReturn(FALSE, trace)
  /\ UNCHANGED << resolving, noise, render, api >>

\* A renderer that returns without deleting the position buffer when the
\* attribute is missing
WebGLBuffer_LeaksBuffer ==
  /\ effect.pc = "webgl-buffer"
  /\ \E got \in {"no-buffer", "no-attribute", "bound"} :
       LET freed == CASE got = "no-buffer" ->
                          {"program", "vertexShader", "fragmentShader"}
                      [] got = "no-attribute" ->
                          {"program", "vertexShader", "fragmentShader"}
                      [] OTHER -> {}
           trace == [effect.trace EXCEPT
                       !.packed = TRUE,
                       !.uniforms =
                          Some(packLayerUniforms(resolveBackgroundArgs(effect.parsedArgs),
                                                 effect.canvas.designWidth,
                                                 effect.canvas.designHeight)),
                       !.objects = IF got = "no-buffer" THEN @ ELSE @ + 1,
                       !.created = IF got = "no-buffer" THEN @ ELSE @ \cup {"positionBuffer"},
                       !.deleted = @ \cup freed,
                       !.failure = IF got = "bound" THEN @ ELSE got]
       IN  effect' = IF got = "bound"
                       THEN [effect EXCEPT !.pc = "webgl-draw", !.trace = trace]
                       ELSE WebGLReturn(FALSE, trace)
  /\ UNCHANGED << resolving, noise, render, api >>

\* packLayerUniforms, the position buffer and the attribute location
WebGLBuffer ==
  /\ effect.pc = "webgl-buffer"
  /\ \E got \in {"no-buffer", "no-attribute", "bound"} :
       LET freed == CASE got = "no-buffer" ->
                          {"program", "vertexShader", "fragmentShader"}
                      [] got = "no-attribute" ->
                          {"positionBuffer", "program", "vertexShader", "fragmentShader"}
                      [] OTHER -> {}
           trace == [effect.trace EXCEPT
                       !.packed = TRUE,
                       !.uniforms =
                          Some(packLayerUniforms(resolveBackgroundArgs(effect.parsedArgs),
                                                 effect.canvas.designWidth,
                                                 effect.canvas.designHeight)),
                       !.objects = IF got = "no-buffer" THEN @ ELSE @ + 1,
                       !.created = IF got = "no-buffer" THEN @ ELSE @ \cup {"positionBuffer"},
                       !.deleted = @ \cup freed,
                       !.failure = IF got = "bound" THEN @ ELSE got]
       IN  effect' = IF got = "bound"
                       THEN [effect EXCEPT !.pc = "webgl-draw", !.trace = trace]
                       ELSE WebGLReturn(FALSE, trace)
  /\ UNCHANGED << resolving, noise, render, api >>

\* A renderer that clears the target before it asks for the texture
WebGLDraw_ClearsFirst ==
  /\ effect.pc = "webgl-draw"
  /\ \E got \in {"no-texture", "texture"} :
       LET resolved == resolveBackgroundArgs(effect.parsedArgs)
           useBlueNoise == resolved.ditherMode = "blue-noise"
           bn == getBlueNoiseTexture64(noise.cache, noise.runs)
       IN  IF got = "no-texture"
             THEN /\ effect' = WebGLReturn(FALSE,
                                  [effect.trace EXCEPT
                                     !.failure = got,
                                     !.targetOps = @ \o <<"clearRect">>,
                                     !.deleted = @ \cup {"positionBuffer", "program",
                                                         "vertexShader", "fragmentShader"}])
                  /\ noise' = noise
             ELSE /\ effect' = [WebGLReturn(TRUE,
                                  [effect.trace EXCEPT
                                     !.objects = @ + 1,
                                     !.created = @ \cup {"blueNoiseTexture"},
                                     !.draws = @ + 1,
                                     !.targetOps = @ \o <<"clearRect", "drawImage">>,
                                     !.deleted = @ \cup {"blueNoiseTexture", "positionBuffer",
                                                         "program", "vertexShader",
                                                         "fragmentShader"}])
                                  EXCEPT !.image = Some(drawnImage(resolved, effect.canvas))]
                  /\ noise' = IF useBlueNoise
                                THEN AfterNoiseCall(bn.cache, bn.runs, Some(bn.array), TRUE,
                                                    noise.value)
                                ELSE noise
  /\ UNCHANGED << resolving, render, api >>

\* The uniforms, the blue-noise texture, drawArrays and the copy into the
\* target canvas
WebGLDraw ==
  /\ effect.pc = "webgl-draw"
  /\ \E got \in {"no-texture", "texture"} :
       LET resolved == resolveBackgroundArgs(effect.parsedArgs)
           useBlueNoise == resolved.ditherMode = "blue-noise"
           bn == getBlueNoiseTexture64(noise.cache, noise.runs)
       IN  IF got = "no-texture"
             THEN /\ effect' = WebGLReturn(FALSE,
                                  [effect.trace EXCEPT
                                     !.failure = got,
                                     !.deleted = @ \cup {"positionBuffer", "program",
                                                         "vertexShader", "fragmentShader"}])
                  /\ noise' = noise
             ELSE /\ effect' = [WebGLReturn(TRUE,
                                  [effect.trace EXCEPT
                                     !.objects = @ + 1,
                                     !.created = @ \cup {"blueNoiseTexture"},
                                     !.draws = @ + 1,
                                     !.targetOps = @ \o <<"clearRect", "drawImage">>,
                                     !.deleted = @ \cup {"blueNoiseTexture", "positionBuffer",
                                                         "program", "vertexShader",
                                                         "fragmentShader"}])
                                  EXCEPT !.image = Some(drawnImage(resolved, effect.canvas))]
                  /\ noise' = IF useBlueNoise
                                THEN AfterNoiseCall(bn.cache, bn.runs, Some(bn.array), TRUE,
                                                    noise.value)
                                ELSE noise
  /\ UNCHANGED << resolving, render, api >>

\* An effect that returns after the WebGL call whatever it returned
EffectAfterWebGL_NoFallback ==
  /\ effect.pc = "webgl-returned"
  /\ effect' = [effect EXCEPT !.pc = "done"]
  /\ UNCHANGED << resolving, noise, render, api >>

\* if (renderedViaWebGL) return;
EffectAfterWebGL ==
  /\ effect.pc = "webgl-returned"
  /\ effect' = [effect EXCEPT !.pc = IF effect.webglResult[1] THEN "done" ELSE "cpu"]
  /\ UNCHANGED << resolving, noise, render, api >>

\* renderBackgroundToCanvas(canvas, width, height, parsedArgs)
EffectCpu ==
  /\ effect.pc = "cpu"
  /\ \E context \in BOOLEAN :
       LET call == [canvas |-> effect.canvas, args |-> effect.parsedArgs]
           resolved == resolveBackgroundArgs(effect.parsedArgs)
           bn == getBlueNoise(noise.cache, noise.runs)
       IN  IF ~context
             THEN /\ effect' = [effect EXCEPT !.pc = "done", !.cpuCalls = Append(@, call)]
                  /\ noise' = noise
           ELSE IF resolved.raised
             THEN /\ effect' = [effect EXCEPT !.pc = "thrown", !.cpuCalls = Append(@, call),
                                                 !.thrown = Some(resolved.error)]
                  /\ noise' = noise
           ELSE /\ effect' = [effect EXCEPT
                                !.pc = "done", !.cpuCalls = Append(@, call),
                                !.image = Some(renderBackgroundPixels(resolved, effect.canvas))]
                /\ noise' = IF resolved.ditherMode = "blue-noise"
                              THEN AfterNoiseCall(bn.cache, bn.runs, Some(bn.array), TRUE,
                                                  noise.value)
                              ELSE noise
  /\ UNCHANGED << resolving, render, api >>

NextEffect ==
  \/ QuerySupport
  \/ EffectRun
  \/ WebGLCheck
  \/ WebGLContexts
  \/ WebGLProgram
  \/ WebGLBuffer
  \/ WebGLDraw
  \/ EffectAfterWebGL
  \/ EffectCpu

SpecEffect == InitEffect /\ [][NextEffect]_vars

\* The configuration the effect was given, by the two limits
EffectLayers == OrElse(effect.parsedArgs.layers, <<>>)
TooManyLayers == Len(EffectLayers) > 6
TooManyStops == \E i \in 1..Len(EffectLayers) : Len(resolveStops(EffectLayers[i])) > 4
Answered == effect.support # None /\ ~effect.support[1].raised

\* C1: canRenderBackgroundWithWebGL answers supported = true exactly when
\* the configuration has at most 6 layers and every layer resolves to at
\* most 4 stops; with more than 6 layers the answer is unsupported with a
\* reason about layers, and with a fitting layer count and a layer of more
\* than 4 stops it is unsupported with a reason about stops.
C1_SupportedIffWithinLimits ==
  Answered =>
    LET answer == effect.support[1]
    IN  /\ answer.supported <=> (~TooManyLayers /\ ~TooManyStops)
        /\ TooManyLayers =>
             ~answer.supported /\ answer.reason # None /\ answer.reason[1].about = "layers"
        /\ (~TooManyLayers /\ TooManyStops) =>
             ~answer.supported /\ answer.reason # None /\ answer.reason[1].about = "stops"

\* C1 witness: a configuration of 7 layers, one of them with 5 stops, was
\* answered with a reason about layers.
C1_Witness ==
  /\ Answered
  /\ Len(EffectLayers) = 7
  /\ TooManyStops
  /\ ~effect.support[1].supported
  /\ effect.support[1].reason[1].about = "layers"

\* C2: a call of renderBackgroundToCanvasWebGL with a configuration over
\* either limit acquires no drawing context, creates no GL object, packs no
\* uniform and issues no draw call, and what it returns is false.
C2_RejectedBeforeAnyGpuWork ==
  (effect.webglCalls > 0 /\ (TooManyLayers \/ TooManyStops)) =>
    /\ effect.trace = NoTrace
    /\ effect.webglResult # None => effect.webglResult = Some(FALSE)
    /\ effect.pc \in {"webgl-check", "webgl-returned", "cpu", "done", "thrown"}

\* C2 witness: the call returned false for 6 layers, one of 5 stops.
C2_Witness ==
  /\ effect.pc = "webgl-returned"
  /\ effect.webglResult = Some(FALSE)
  /\ Len(EffectLayers) = 6
  /\ TooManyStops
  /\ effect.trace = NoTrace

\* C3: for a configuration within the GPU capacity, every pixel of the
\* image the GPU path leaves in the target canvas, at column px and row py
\* from the top, is the pixel the CPU path computes there: the layers
\* evaluated at (px*designWidth/physicalWidth, py*designHeight/physicalHeight)
\* and the dither at (px, py).
C3_GpuImageIsCpuImage ==
  (effect.webglResult = Some(TRUE) /\ effect.image # None) =>
    effect.image[1] = renderBackgroundPixels(resolveBackgroundArgs(effect.parsedArgs),
                                             effect.canvas)

ShaderFailures == {"vertex-compile-failed", "fragment-compile-failed", "link-failed"}
CpuCall == [canvas |-> effect.canvas, args |-> effect.parsedArgs]

\* C4: in the render effect with renderer auto or webgl, once the WebGL
\* renderer has returned false, for whatever reason, the effect does not
\* finish without having invoked the CPU renderer, afterwards and once, on
\* the same canvas with the same arguments; when it returned true the CPU
\* renderer is not invoked; with renderer canvas2d the WebGL renderer is
\* never invoked.  A shader compile or link failure is logged and makes the
\* call return false; it is never thrown.
C4_FallbackToCpu ==
  /\ (effect.webglResult = Some(FALSE) /\ effect.pc \in {"done", "thrown"}) =>
       effect.cpuCalls = <<CpuCall>>
  /\ (effect.webglCalls > 0 /\ effect.cpuCalls # <<>>) => effect.webglResult = Some(FALSE)
  /\ effect.webglResult = Some(TRUE) => effect.cpuCalls = <<>>
  /\ effect.renderer = "canvas2d" =>
       effect.webglCalls = 0 /\ effect.webglResult = None /\ effect.trace = NoTrace
  /\ (effect.pc # "unused" /\ effect.trace.failure \in ShaderFailures) =>
       /\ effect.trace.warnings = 1
       /\ effect.webglResult = Some(FALSE)
       /\ effect.pc # "thrown"

\* C4 witness: the fragment shader failed to compile, the call logged it and
\* returned false, and the effect finished after invoking the CPU renderer.
C4_Witness ==
  /\ effect.pc = "done"
  /\ effect.renderer = "auto"
  /\ effect.trace.failure = "fragment-compile-failed"
  /\ effect.trace.warnings = 1
  /\ effect.webglResult = Some(FALSE)
  /\ effect.cpuCalls = <<CpuCall>>

(***************************************************************************)
(* Calls of the exported functions that keep no state: a caller holds the  *)
(* arguments of one call and makes it.                                     *)
(***************************************************************************)
\* The longest run of digits in a color string given to the parser
MaxDigits == 9
\* The largest coordinate, in half design pixels, a box layer is sampled at
MaxHalfPixel == 9

\* The calls: the function and its argument.
\* Color strings: optional spaces around, zero to two '#', then n characters
\* that are hex digits except, when bad > 0, the one at position bad.
\* Arguments of parseBackgroundArgs: objects, JSON texts and other texts.
\* Arguments of sampleBoxProgress: inset boxes of 3 by 2 design pixels at
\* (1, 1) in a design of 5 by 4, sampled at every half pixel.
\* presets.ts createVignetteNoiseBackgroundArgs.  Lengths are in CU and
\* fractions in units; the result is [raised |-> TRUE, error] when mixHex
\* throws on the base color.  blur and radius are computed and not used.
createVignetteNoiseBackgroundArgs(options) ==
  LET Frac(n, d) == (n * ONE) \div d
      Part(v, n, d) == (v * n) \div d
      RoundPx(v) == ((v + CU \div 2) \div CU) * CU
      HexChars == <<"0", "1", "2", "3", "4", "5", "6", "7",
                    "8", "9", "a", "b", "c", "d", "e", "f">>
      toHex(value) == << HexChars[(value \div 16) + 1], HexChars[(value % 16) + 1] >>
      toByte(c) == quantizeChannel(linearToSrgb8(clamp01(c)))
      linearRgbaToHex(r, g, b) == <<"#">> \o toHex(toByte(r)) \o toHex(toByte(g))
                                    \o toHex(toByte(b))
      mixHex(baseHex, tintHex, strength) ==
        With(parseColorToLinearRgba(baseHex), LAMBDA base :
        With(parseColorToLinearRgba(tintHex), LAMBDA tint :
          IF base.raised THEN base
          ELSE IF tint.raised THEN tint
          ELSE LET t == clamp01(strength)
               IN  [raised |-> FALSE,
                    hex |-> linearRgbaToHex(base.r + Mul(tint.r - base.r, t),
                                            base.g + Mul(tint.g - base.g, t),
                                            base.b + Mul(tint.b - base.b, t))]))
      width == OrElse(options.width, 1920 * CU)
      height == OrElse(options.height, 1080 * CU)
      preset == OrElse(options.preset, "video")
      baseColor == OrElse(options.baseColor, <<"#", "0", "d", "0", "d", "0", "e">>)
      baseDarken == clamp01(OrElse(options.baseDarken,
                                   IF preset = "still" THEN Frac(10, 100) ELSE Frac(14, 100)))
      colorShift == clamp01(OrElse(options.colorShift, ONE))
      minDim == Min2(width, height)
      blur == OrElse(options.blur, RoundPx(Part(minDim, 55, 100)))
      radius == OrElse(options.radius, RoundPx(Part(minDim, 6, 100)))
      edgeShadowIntensity ==
        OrElse(options.edgeShadowIntensity,
               IF preset = "still" THEN Frac(45, 100) ELSE Frac(50, 100))
      cornerShadowIntensity ==
        OrElse(options.cornerShadowIntensity,
               IF preset = "still" THEN Frac(18, 100) ELSE Frac(22, 100))
      grainAmount == OrElse(options.grainAmount,
                            IF preset = "still" THEN Frac(28, 10000) ELSE Frac(36, 10000))
      grainSeed == OrElse(options.grainSeed, 0)
      Stop(position, color) == [position |-> position, color |-> color, alpha |-> None]
      Shadow(end, curve) ==
        Some([startIntensity |-> Some(0), endIntensity |-> Some(end), curve |-> Some(curve)])
      Grain(amount, scale, seed) ==
        Some([amount |-> Some(amount), scale |-> Some(scale), seed |-> Some(seed),
              monochrome |-> Some(TRUE)])
      Vignette(opacity, cx, cy, rx, ry, inner, outer, falloff, power) ==
        [RadialLayer EXCEPT
           !.blendMode = Some("multiply"), !.opacity = Some(opacity),
           !.centerX = Some(cx), !.centerY = Some(cy),
           !.radiusX = Some(rx), !.radiusY = Some(ry),
           !.innerRadius = Some(inner), !.outerRadius = Some(outer),
           !.falloff = Some(falloff), !.power = power, !.colorSpace = Some("oklab")]
  IN  With(mixHex(baseColor, <<"#", "0", "7", "0", "7", "0", "8">>, baseDarken), LAMBDA baseFloor :
        IF baseFloor.raised THEN baseFloor
        ELSE
        With(mixHex(<<"#", "f", "e", "f", "e", "f", "e">>, <<"#", "f", "e", "f", "4", "e", "e">>, Mul(Frac(6, 10), colorShift)).hex,
             LAMBDA vigCenter :
        With(mixHex(<<"#", "d", "8", "d", "8", "d", "c">>, <<"#", "d", "0", "c", "c", "d", "8">>, Mul(Frac(4, 10), colorShift)).hex,
             LAMBDA vigMid :
        With(mixHex(<<"#", "a", "8", "a", "8", "b", "0">>, <<"#", "9", "8", "a", "0", "b", "8">>, Mul(Frac(5, 10), colorShift)).hex,
             LAMBDA vigEdge :
        With(mixHex(<<"#", "8", "0", "8", "0", "8", "8">>, <<"#", "7", "0", "7", "8", "8", "8">>, Mul(Frac(5, 10), colorShift)).hex,
             LAMBDA vigDeep :
          [raised |-> FALSE,
           value |->
             [preset |-> Some(preset),
              baseColor |-> Some(baseFloor.hex),
              dither |->
                IF options.ditherMode # None
                     \/ (options.ditherAmplitude # None /\ options.ditherAmplitude[1] # 0)
                  THEN Some([mode |-> options.ditherMode,
                             amplitude |-> options.ditherAmplitude])
                  ELSE None,
              grain |-> Grain(grainAmount, OrElse(options.grainScale, Frac(185, 100)),
                              grainSeed),
              opaque |-> None,
              layers |-> Some(<<
                [Vignette(Frac(35, 100),
                          Part(width, 49, 100) + RoundPx(0 - Part(width, 1, 100)),
                          Part(height, 49, 100) + RoundPx(0 - Part(height, 15, 1000)),
                          Part(width, 58, 100), Part(height, 58, 100),
                          Frac(30, 100), Frac(120, 100), Frac(13, 10), Some(5 * ONE))
                   EXCEPT !.stops = Some(<< Stop(0, vigCenter), Stop(Frac(55, 100), vigMid),
                                            Stop(ONE, vigEdge) >>),
                          !.shadow = Shadow(Mul(edgeShadowIntensity, Frac(20, 100)),
                                            Frac(12, 10)),
                          !.grain = Grain(Mul(grainAmount, Frac(35, 100)), Frac(85, 100),
                                          grainSeed + 101)],
                [Vignette(Frac(28, 100),
                          Part(width, 51, 100) + RoundPx(Part(width, 15, 1000)),
                          Part(height, 51, 100) + RoundPx(Part(height, 2, 100)),
                          Part(width, 52, 100), Part(height, 52, 100),
                          Frac(25, 100), Frac(115, 100), Frac(15, 10), Some(5 * ONE))
                   EXCEPT !.stops = Some(<< Stop(0, vigMid), Stop(Frac(6, 10), vigEdge),
                                            Stop(ONE, vigDeep) >>),
                          !.shadow = Shadow(Mul(edgeShadowIntensity, Frac(25, 100)),
                                            Frac(16, 10)),
                          !.grain = Grain(Mul(grainAmount, Frac(28, 100)), Frac(28, 10),
                                          grainSeed + 37)],
                [Vignette(Frac(25, 100),
                          Part(width, 46, 100), Part(height, 42, 100),
                          Part(width, 7, 10), Part(height, 63, 100),
                          Frac(48, 100), Frac(116, 100), Frac(135, 100), None)
                   EXCEPT !.stops = Some(<< Stop(0, vigCenter), Stop(Frac(72, 100), vigEdge),
                                            Stop(ONE, vigDeep) >>),
                          !.shadow = Shadow(Mul(cornerShadowIntensity, Frac(20, 100)),
                                            Frac(14, 10)),
                          !.grain = Grain(Mul(grainAmount, Frac(22, 100)), Frac(135, 100),
                                          grainSeed + 73)],
                [Vignette(Frac(20, 100),
                          Part(width, 56, 100), Part(height, 54, 100),
                          Part(width, 6, 10), Part(height, 56, 100),
                          Frac(62, 100), Frac(122, 100), Frac(29, 10), None)
                   EXCEPT !.stops = Some(<< Stop(0, vigMid), Stop(Frac(78, 100), vigEdge),
                                            Stop(ONE, vigDeep) >>),
                          !.shadow = Shadow(Mul(cornerShadowIntensity, Frac(25, 100)),
                                            Frac(23, 10)),
                          !.grain = Grain(Mul(grainAmount, Frac(18, 100)), Frac(42, 10),
                                          grainSeed + 149)] >>)]])))))

\* The most prepared stops sampleStops is called on
MaxSampledStops == 3

ApiInputs ==
  LET Digits == <<"0", "f", "8", "A", "3", "c", "E", "7", "1">>
      Body(n, bad, c) == [i \in 1..n |-> IF i = bad THEN c ELSE Digits[((i - 1) % 9) + 1]]
      ColorInputs ==
        {lead \o hashes \o Body(n, bad, c) \o trail :
           lead \in {<<>>, <<" ">>},
           hashes \in {<<>>, <<"#">>, <<"#", "#">>},
           n \in 0..MaxDigits, bad \in 0..MaxDigits, c \in {"g", " ", "#"},
           trail \in {<<>>, <<" ", " ">>}}
      ArgsInputs ==
        [kind : {"object"}, v : {PlainArgs, [PlainArgs EXCEPT !.preset = Some("still")]}]
          \cup [kind : {"string"},
                v : {"{}", "{\"preset\":\"still\"}", " {\"opaque\":false} ", "null", "0",
                     "12", "\"\"", "\"{}\"", "true", "false", "[]", "[{}]",
                     "", "{", "{preset:1}", "undefined", "#000000"}]
      BoxInputs ==
        {[layer |-> [BoxLayer EXCEPT
                       !.x = Some(CU), !.y = Some(CU), !.width = Some(3 * CU),
                       !.height = Some(2 * CU), !.inset = inset, !.radius = radius,
                       !.spread = spread, !.blur = blur],
          x |-> (hx * CU) \div 2, y |-> (hy * CU) \div 2,
          width |-> 5 * CU, height |-> 4 * CU] :
           inset \in {None, Some(TRUE)},
           radius \in {None, Some(CU), Some(5 * CU), Some(0 - CU)},
           spread \in {None, Some(CU \div 2), Some(2 * CU), Some(0 - CU)},
           blur \in {None, Some(0), Some(2 * CU), Some(0 - CU)},
           hx \in 0..MaxHalfPixel, hy \in 0..MaxHalfPixel}
      VignetteInputs ==
        {[width |-> width, height |-> None, baseColor |-> baseColor, baseDarken |-> None,
          colorShift |-> colorShift, preset |-> preset,
          edgeShadowIntensity |-> edge, cornerShadowIntensity |-> None,
          blur |-> blur, radius |-> None, grainAmount |-> None, grainScale |-> None,
          grainSeed |-> seed, ditherMode |-> mode, ditherAmplitude |-> amplitude] :
           width \in {None, Some(4 * CU)},
           baseColor \in {None, Some(<<"#", "0", "d", "0", "d", "0", "e">>),
                          Some(<<"#", "1", "2", "3", "4", "5">>)},
           colorShift \in {None, Some(0)},
           preset \in {None, Some("video"), Some("still")},
           edge \in {None, Some(ONE)},
           blur \in {None, Some(0)},
           seed \in {None, Some(5)},
           mode \in {None, Some("ign")},
           amplitude \in {None, Some(0), Some(LSB)}}
      SampleColors ==
        {[r |-> ONE, g |-> 0, b |-> 0, a |-> ONE],
         [r |-> 0, g |-> ONE \div 2, b |-> ONE, a |-> ONE \div 2],
         [r |-> ONE \div 4, g |-> ONE, b |-> 3, a |-> 0]}
      SampleStop ==
        {[position |-> p, color |-> c, lab |-> linearRgbToOklab(c)] :
           p \in {0, ONE \div 4, ONE \div 2, ONE}, c \in SampleColors}
      SampleInputs ==
        {[stops |-> stops, t |-> t, colorSpace |-> colorSpace] :
           stops \in {l \in UNION {[1..n -> SampleStop] : n \in 2..MaxSampledStops} :
                        \A i \in 1..(Len(l) - 1) : l[i].position <= l[i + 1].position},
           t \in {0 - ONE \div 2, 0, ONE \div 8, ONE \div 4, (3 * ONE) \div 8, ONE \div 2,
                  (3 * ONE) \div 4, ONE, 2 * ONE},
           colorSpace \in {"linear-srgb", "oklab"}}
      ShadowInputs ==
        {[color |-> color, progress |-> progress, shadow |-> toPreparedShadow(shadow)] :
           color \in SampleColors,
           progress \in {0 - ONE \div 2, 0, ONE \div 4, ONE \div 2, ONE, 2 * ONE},
           shadow \in {None} \cup
             {Some([startIntensity |-> start, endIntensity |-> end, curve |-> curve]) :
                start \in {None, Some(0), Some(ONE \div 2), Some(0 - ONE), Some(2 * ONE)},
                end \in {None, Some(0), Some((8 * ONE) \div 10), Some(2 * ONE)},
                curve \in {None, Some(0), Some(ONE \div 2), Some(2 * ONE), Some(0 - ONE)}}}
  IN  [fn : {"parseColorToLinearRgba"}, input : ColorInputs]
        \cup [fn : {"applyShadow"}, input : ShadowInputs]
        \cup [fn : {"sampleStops"}, input : SampleInputs]
        \cup [fn : {"createVignetteNoiseBackgroundArgs"}, input : VignetteInputs]
        \cup [fn : {"parseBackgroundArgs"}, input : ArgsInputs]
        \cup [fn : {"sampleBoxProgress"}, input : BoxInputs]

InitApi ==
  /\ \E c \in ApiInputs : api = [fn |-> c.fn, input |-> c.input, result |-> None]
  /\ resolving = ResolvingIdle
  /\ noise = NoiseIdle
  /\ render = RenderIdle
  /\ effect = EffectIdle

CallParseColorToLinearRgba ==
  /\ api.fn = "parseColorToLinearRgba"
  /\ api.result = None
  /\ api' = [api EXCEPT !.result = Some(parseColorToLinearRgba(api.input))]
  /\ UNCHANGED << resolving, noise, render, effect >>

CallParseBackgroundArgs ==
  /\ api.fn = "parseBackgroundArgs"
  /\ api.result = None
  /\ api' = [api EXCEPT !.result = Some(parseBackgroundArgs(api.input))]
  /\ UNCHANGED << resolving, noise, render, effect >>

CallSampleBoxProgress ==
  /\ api.fn = "sampleBoxProgress"
  /\ api.result = None
  /\ LET in == api.input
     IN  api' = [api EXCEPT !.result =
                   Some(sampleBoxProgress(in.layer, in.x, in.y, in.width, in.height))]
  /\ UNCHANGED << resolving, noise, render, effect >>

CallCreateVignetteNoiseBackgroundArgs ==
  /\ api.fn = "createVignetteNoiseBackgroundArgs"
  /\ api.result = None
  /\ api' = [api EXCEPT !.result = Some(createVignetteNoiseBackgroundArgs(api.input))]
  /\ UNCHANGED << resolving, noise, render, effect >>

CallSampleStops ==
  /\ api.fn = "sampleStops"
  /\ api.result = None
  /\ api' = [api EXCEPT !.result =
                Some(sampleStops(api.input.stops, api.input.t, api.input.colorSpace))]
  /\ UNCHANGED << resolving, noise, render, effect >>

\* sampleLayerColor's call of applyShadow on a sampled color
CallApplyShadow ==
  /\ api.fn = "applyShadow"
  /\ api.result = None
  /\ api' = [api EXCEPT !.result =
                Some(applyShadow(api.input.color, api.input.progress, api.input.shadow))]
  /\ UNCHANGED << resolving, noise, render, effect >>

NextApi ==
  \/ CallParseColorToLinearRgba
  \/ CallApplyShadow
  \/ CallSampleStops
  \/ CallCreateVignetteNoiseBackgroundArgs
  \/ CallParseBackgroundArgs
  \/ CallSampleBoxProgress

SpecApi == InitApi /\ [][NextApi]_vars

ApiReturned(fn) == api.fn = fn /\ api.result # None

\* A color string the parser is to accept: spaces, at most one '#', then
\* 3, 4, 6 or 8 hex digits, then spaces.  digits is the number of digits.
HexDigits ==
  {"0", "1", "2", "3", "4", "5", "6", "7", "8", "9",
   "a", "b", "c", "d", "e", "f", "A", "B", "C", "D", "E", "F"}
WellFormedAt(s, i, h, digits) ==
  /\ i + h + digits <= Len(s)
  /\ \A k \in 1..i : s[k] = " "
  /\ h = 1 => s[i + 1] = "#"
  /\ \A k \in (i + h + 1)..(i + h + digits) : s[k] \in HexDigits
  /\ \A k \in (i + h + digits + 1)..Len(s) : s[k] = " "
WellFormed(s, digits) == \E i \in 0..Len(s), h \in {0, 1} : WellFormedAt(s, i, h, digits)
\* The alpha byte the digits of a well-formed string spell
SpelledAlpha(s, digits) ==
  LET i == CHOOSE k \in 0..Len(s) : \E h \in {0, 1} : WellFormedAt(s, k, h, digits)
      h == CHOOSE k \in {0, 1} : WellFormedAt(s, i, k, digits)
      at(d) == HexVal(s[i + h + d])
  IN  IF digits = 4 THEN 17 * at(4)
      ELSE IF digits = 8 THEN 16 * at(7) + at(8)
      ELSE 255

\* C11: parseColorToLinearRgba returns a color exactly for the strings
\* that, trimmed and without one optional leading '#', are 3, 4, 6 or 8 hex
\* digits, with the alpha of the 4th digit or of the last two digits and 1
\* otherwise; for every other string it raises and returns no color.
C11_ParsesExactlyHexForms ==
  ApiReturned("parseColorToLinearRgba") =>
    LET s == api.input
        out == api.result[1]
    IN  /\ ~out.raised <=> \E digits \in {3, 4, 6, 8} : WellFormed(s, digits)
        /\ out.raised => DOMAIN out = {"raised", "error"}
        /\ \A digits \in {3, 4, 6, 8} :
             WellFormed(s, digits) => out.a = (SpelledAlpha(s, digits) * ONE) \div 255

\* C11 witness: " #0f8A  " was parsed to a color of alpha AA/FF.
C11_Witness ==
  /\ ApiReturned("parseColorToLinearRgba")
  /\ api.input = <<" ", "#", "0", "f", "8", "A", " ", " ">>
  /\ ~api.result[1].raised
  /\ api.result[1].a = (170 * ONE) \div 255

\* The texts that are JSON and spell an object
JsonObjectTexts == {"{}", "{\"preset\":\"still\"}", " {\"opaque\":false} "}

\* C12: parseBackgroundArgs returns a non-string argument unchanged; for a
\* string it returns the parsed value exactly when the string is JSON that
\* spells an object, and raises for every other string: invalid JSON, null,
\* a number, a string, a boolean, an array.
C12_ParsesObjectsOnly ==
  ApiReturned("parseBackgroundArgs") =>
    LET in == api.input
        out == api.result[1]
    IN  /\ in.kind # "string" => ~out.raised /\ out.value = in
        /\ in.kind = "string" =>
             /\ ~out.raised <=> in.v \in JsonObjectTexts
             /\ ~out.raised => out.value.kind = "object"

\* The dither settings given to resolution, None where they are omitted
GivenDitherMode ==
  IF resolving.args.dither = None THEN None ELSE resolving.args.dither[1].mode
GivenDitherAmplitude ==
  IF resolving.args.dither = None THEN None ELSE resolving.args.dither[1].amplitude

\* C13: the resolved preset is the given one and 'video' when omitted; the
\* dither mode is the given one, else 'blue-noise' for 'still' and 'ign' for
\* 'video'; the amplitude is the given one, else 1.0 for 'still' and 1.35
\* for 'video'; each of mode and amplitude is overridden independently of
\* the other, and the resolved amplitude is never negative.
C13_PresetDitherDefaults ==
  Returned =>
    LET out == resolving.result[1]
        still == resolving.args.preset = Some("still")
    IN  /\ out.preset = (IF still THEN "still" ELSE "video")
        /\ out.ditherMode =
             (IF GivenDitherMode # None THEN GivenDitherMode[1]
              ELSE IF still THEN "blue-noise" ELSE "ign")
        /\ out.ditherAmplitude =
             (IF GivenDitherAmplitude # None
                THEN (IF GivenDitherAmplitude[1] < 0 THEN 0 ELSE GivenDitherAmplitude[1])
              ELSE IF still THEN LSB ELSE (135 * LSB) \div 100)
        /\ out.ditherAmplitude >= 0

\* C13 witness: preset 'still' with only dither.mode 'ign' given was
\* resolved to mode 'ign' and the amplitude 1.0 of 'still'.
C13_Witness ==
  /\ Returned
  /\ resolving.args.preset = Some("still")
  /\ GivenDitherMode = Some("ign")
  /\ GivenDitherAmplitude = None
  /\ resolving.result[1].ditherMode = "ign"
  /\ resolving.result[1].ditherAmplitude = LSB

\* The box of the layer being sampled and the signed distance of the pixel
\* to its outer rounded rectangle
BoxSdf ==
  LET in == api.input
  IN  signedDistanceRoundedRect(in.x, in.y, in.layer.x[1], in.layer.y[1],
                                in.layer.width[1], in.layer.height[1],
                                OrElse(in.layer.radius, 0))
OutsideBoxBounds ==
  LET in == api.input
  IN  \/ in.x < in.layer.x[1] \/ in.x > in.layer.x[1] + in.layer.width[1]
      \/ in.y < in.layer.y[1] \/ in.y > in.layer.y[1] + in.layer.height[1]
SpreadConsumesBox ==
  LET in == api.input
  IN  \/ 2 * OrElse(in.layer.spread, 0) >= in.layer.width[1]
      \/ 2 * OrElse(in.layer.spread, 0) >= in.layer.height[1]

\* C14: for an inset box layer of any radius, spread and blur,
\* sampleBoxProgress answers mask 0 at a pixel strictly outside the outer
\* rounded rectangle (signed distance > 0; in particular outside its
\* bounds) and mask 1 at every pixel inside or on it, also when spread
\* consumes the whole interior.
C14_InsetBoxMask ==
  ApiReturned("sampleBoxProgress") =>
    /\ BoxSdf > 0 <=> api.result[1].mask = 0
    /\ BoxSdf <= 0 <=> api.result[1].mask = ONE
    /\ OutsideBoxBounds => api.result[1].mask = 0

\* C14 witness: a pixel inside a box whose spread consumes the interior was
\* sampled with mask 1.
C14_Witness ==
  /\ ApiReturned("sampleBoxProgress")
  /\ SpreadConsumesBox
  /\ BoxSdf <= 0
  /\ api.result[1].mask = ONE
  /\ api.result[1].t = 0

\* C15: the buffer a call of renderBackgroundPixels returns is the one its
\* configuration and sizes determine, whether the blue noise was generated
\* before the call, during it or not at all; so two calls with the same
\* configuration and sizes return byte-identical buffers whatever was
\* rendered in between.
C15_BufferDeterminedByArguments ==
  render.phase = "returned" =>
    render.pixelData = renderBackgroundPixels(resolveBackgroundArgs(render.args),
                                              render.canvas)

\* C15 witness: a call with blue-noise dither and seeded grain on 3 by 2
\* pixels returned, the blue noise having been generated before the call.
C15_Witness ==
  /\ render.phase = "returned"
  /\ render.resolved.ditherMode = "blue-noise"
  /\ render.resolved.grain # None
  /\ render.canvas.physicalWidth = 3
  /\ noise.runs = 1
  /\ noise.calls = 7

\* The amplitudes asked of getDitherValue, in sRGB levels times LSB
DitherAmplitudes == {0, 1, LSB \div 2, LSB, (135 * LSB) \div 100, (3 * LSB) \div 2, 4 * LSB}

\* C16: at every integer pixel coordinate, negative ones included, in both
\* dither modes and for every amplitude amp >= 0, the value getDitherValue
\* returns lies between -amp and amp, whether or not the blue noise has been
\* generated; so does the value the last call returned.
C16_DitherWithinAmplitude ==
  /\ \A x \in (0 - MaxNoiseCoord)..MaxNoiseCoord, y \in (0 - MaxNoiseCoord)..MaxNoiseCoord,
        mode \in {"ign", "blue-noise"}, amp \in DitherAmplitudes :
       LET v == getDitherValue(x, y, mode, amp, noise.cache, noise.runs).value
       IN  (0 - amp) <= v /\ v <= amp
  /\ noise.calls > 0 =>
       (0 - (135 * LSB) \div 100) <= noise.value /\ noise.value <= (135 * LSB) \div 100

\* C16 witness: getDitherValue has been called in blue-noise mode and its last
\* call returned a value below zero by more than half a level.
C16_Witness ==
  /\ noise.needed
  /\ noise.cache # None
  /\ noise.value < 0 - (LSB \div 2)

\* The pixel's layers are composited and its bytes are about to be written
FinishingPixel ==
  /\ render.phase = "pixel"
  /\ render.layerIndex > Len(render.resolved.layers)

\* Index in the buffer of the alpha byte of the pixel being visited
AlphaIndex == (render.py * render.canvas.physicalWidth + render.px) * 4 + 4

\* round(alpha * 255) of an alpha in units, clamped to a byte
RoundedAlphaByte(a) ==
  LET unit == Max2(0, Min2(ONE, a))
  IN  Max2(0, Min2(255, (unit * 255 * 2 + ONE) \div (2 * ONE)))

\* C17: the alpha byte written for a pixel is 255 when the configuration's
\* opaque flag is true or omitted, and otherwise round(accumulated alpha *
\* 255) clamped to [0,255] with neither grain nor dither added; an alpha
\* byte that was written is not written again.
C17_AlphaByte ==
  [][ /\ FinishingPixel =>
           render'.pixelData[AlphaIndex]
             = IF render.args.opaque \in {None, Some(TRUE)} THEN 255
               ELSE RoundedAlphaByte(render.accumulated.a)
      /\ render.phase = "pixel" =>
           \A i \in 1..(AlphaIndex \div 4 - 1) :
             render'.pixelData[4 * i] = render.pixelData[4 * i]
    ]_vars

\* C17 witness: a call with opaque false, a half-transparent base color,
\* blue-noise dither and global grain returned alpha bytes of 128.
C17_Witness ==
  /\ render.phase = "returned"
  /\ render.args.opaque = Some(FALSE)
  /\ render.resolved.ditherMode = "blue-noise"
  /\ render.resolved.grain # None
  /\ render.resolved.baseColor.a \notin {0, ONE}
  /\ render.canvas.physicalWidth = 3
  /\ \A i \in 1..6 : render.pixelData[4 * i] = 128

\* C18: no step of a call of renderBackgroundPixels, the resolution it starts
\* with included, changes the caller's configuration: every field, the order
\* and positions of each layer's explicit stops among them, is as it was;
\* and throughout the pixel loop the resolved form stays the one resolution
\* returned.
C18_ConfigurationReadOnly ==
  [][ /\ render'.args = render.args
      /\ render.phase = "pixel" =>
           /\ render'.resolved = render.resolved
           /\ render'.resolved = resolveBackgroundArgs(render.args)
    ]_vars

\* C18 witness: a call returned whose first layer was given three explicit
\* stops in descending and mixed order, which resolution prepared in
\* ascending order.
C18_Witness ==
  /\ render.phase = "returned"
  /\ render.args.layers = Some(<<PointsLayer, CoverLayer>>)
  /\ render.args.layers[1][1].stops[1][1].position = ONE
  /\ render.resolved.layers[1].stops[1].position = 0
  /\ render.resolved.layers[2].stops[1].position = ONE

\* The configuration createVignetteNoiseBackgroundArgs returned
VignetteArgs == api.result[1].value
DefaultVignetteOptions == \A f \in DOMAIN api.input : api.input[f] = None

\* C19: createVignetteNoiseBackgroundArgs returns a configuration with at
\* least 4 layers, at least one of them radial, whose first layer is a box
\* layer with inset true, blur above 0 and shadow startIntensity above 0.3;
\* with default options its preset is 'video' and its global grain is
\* monochrome.
C19_VignetteBoxFirst ==
  (ApiReturned("createVignetteNoiseBackgroundArgs") /\ ~api.result[1].raised) =>
    LET layers == VignetteArgs.layers[1]
        first == layers[1]
    IN  /\ Len(layers) >= 4
        /\ \E i \in 1..Len(layers) : layers[i].type = "radial"
        /\ first.type = "box"
        /\ first.inset = Some(TRUE)
        /\ OrElse(first.blur, 0) > 0
        /\ first.shadow # None
        /\ OrElse(first.shadow[1].startIntensity, 0) > (3 * ONE) \div 10
        /\ DefaultVignetteOptions =>
             /\ VignetteArgs.preset = Some("video")
             /\ VignetteArgs.grain[1].monochrome = Some(TRUE)

\* Math.round and the clamp to a byte of a value in sRGB levels times LSB
RoundToByte(v) == Max2(0, Min2(255, (v + LSB \div 2) \div LSB))

\* Channel ch (1 red, 2 green, 3 blue) of a color and of a grain sample
ChannelOf(color, ch) == IF ch = 1 THEN color.r ELSE IF ch = 2 THEN color.g ELSE color.b

\* The unrounded sRGB value of a channel of a linear color, clamped first
UnroundedSrgb(color, ch) == LinearToSrgb8Table[Max2(0, Min2(ONE, ChannelOf(color, ch))) + 1]

\* Global grain of a channel at a design coordinate
GrainSrgb(x, y, ch) ==
  LET grainNoise == computeGrainSrgb(render.resolved.grain, x, y)
  IN  IF grainNoise = None THEN 0 ELSE ChannelOf(grainNoise[1], ch)

\* The dither sample of the pixel being visited, on the module's blue noise
DitherNow ==
  IF render.resolved.ditherMode = "none" THEN 0
  ELSE getDitherValue(render.px, render.py, render.resolved.ditherMode,
                      render.resolved.ditherAmplitude, noise.cache, noise.runs).value

\* C20: each color byte written for a pixel is the unrounded sRGB value of
\* the clamped accumulated channel, plus global grain, plus the dither
\* sample, rounded and clamped to [0,255] once, at the end; linearToSrgb8
\* hands over the unrounded value.
C20_RoundedOnceAtEnd ==
  [][ FinishingPixel =>
        \A ch \in 1..3 :
          render'.pixelData[AlphaIndex - 4 + ch]
            = RoundToByte(UnroundedSrgb(render.accumulated, ch)
                            + GrainSrgb(PixelX, PixelY, ch) + DitherNow)
    ]_vars

\* The accumulated color of physical pixel p (from 0) of the call
AccumulatedOf(p) ==
  LET c == render.canvas
  IN  compositeLayers(render.resolved, Len(render.resolved.layers),
                      DesignCoord(p % c.physicalWidth, c.designWidth, c.physicalWidth),
                      DesignCoord(p \div c.physicalWidth, c.designHeight, c.physicalHeight),
                      c.designWidth, c.designHeight)

\* The byte of channel ch of pixel p had the sRGB value been rounded before
\* grain and dither were added
RoundedFirstByte(p, ch) ==
  LET c == render.canvas
      x == DesignCoord(p % c.physicalWidth, c.designWidth, c.physicalWidth)
      y == DesignCoord(p \div c.physicalWidth, c.designHeight, c.physicalHeight)
  IN  RoundToByte(RoundToByte(UnroundedSrgb(AccumulatedOf(p), ch)) * LSB
                    + GrainSrgb(x, y, ch)
                    + ditherNoiseAt(render.resolved, p % c.physicalWidth,
                                    p \div c.physicalWidth))

\* C20 witness: a dithered call returned a buffer in which a channel whose
\* unrounded sRGB value is not a whole level has a byte that rounding before
\* the dither would not have produced.
C20_Witness ==
  /\ render.phase = "returned"
  /\ render.resolved.ditherMode # "none"
  /\ \E p \in 0..(render.canvas.physicalWidth * render.canvas.physicalHeight - 1),
        ch \in 1..3 :
       /\ (UnroundedSrgb(AccumulatedOf(p), ch) % LSB) # 0
       /\ render.pixelData[4 * p + ch] # RoundedFirstByte(p, ch)

\* A call of sampleStops in linear-RGB color space returned
SampledLinear == ApiReturned("sampleStops") /\ api.input.colorSpace = "linear-srgb"
SampledStops == api.input.stops
SampledColor == api.result[1]

\* Channel c of the sample is the linear interpolation of stops i and i + 1
\* at t, to within the two roundings of the fixed-point arithmetic
InterpolatesAt(i, t) ==
  LET start == SampledStops[i]
      end == SampledStops[i + 1]
      span == end.position - start.position
      Near(got, from, to) ==
        Abs(got * span - (from * span + (to - from) * (t - start.position))) < 2 * span
  IN  /\ Near(SampledColor.r, start.color.r, end.color.r)
      /\ Near(SampledColor.g, start.color.g, end.color.g)
      /\ Near(SampledColor.b, start.color.b, end.color.b)
      /\ Near(SampledColor.a, start.color.a, end.color.a)

Scaled(color, factor) ==
  [r |-> (color.r * factor) \div ONE, g |-> (color.g * factor) \div ONE,
   b |-> (color.b * factor) \div ONE, a |-> color.a]

\* C22: applyShadow multiplies R, G and B by
\* 1 - clamp(lerp(startIntensity, endIntensity, progress^curve), 0, 1) and
\* keeps alpha; at progress 0 the factor is 1 - startIntensity, at progress 1
\* it is 1 - endIntensity, and a shadow with both intensities 0 returns the
\* color it was given.
C22_ShadowScalesRgb ==
  ApiReturned("applyShadow") =>
    LET color == api.input.color
        shadow == api.input.shadow
        progress == Max2(0, Min2(ONE, api.input.progress))
        shaped == Pow(progress, shadow.curve)
        along == shadow.startIntensity
                   + ((shadow.endIntensity - shadow.startIntensity) * shaped) \div ONE
    IN  /\ api.result[1] = Scaled(color, ONE - Max2(0, Min2(ONE, along)))
        /\ api.result[1].a = color.a
        /\ progress = 0 => api.result[1] = Scaled(color, ONE - shadow.startIntensity)
        /\ progress = ONE => api.result[1] = Scaled(color, ONE - shadow.endIntensity)
        /\ (shadow.startIntensity = 0 /\ shadow.endIntensity = 0) => api.result[1] = color

\* C22 witness: a color of full red under a shadow from 0 to 0.8 came back
\* at progress 1 with less than half its red and with its alpha.
C22_Witness ==
  /\ ApiReturned("applyShadow")
  /\ api.input.progress = ONE
  /\ api.input.shadow.startIntensity = 0
  /\ api.input.shadow.endIntensity = (8 * ONE) \div 10
  /\ api.input.color.r = ONE
  /\ 2 * api.result[1].r < ONE
  /\ api.result[1].a = api.input.color.a

(***************************************************************************)
(* generateBlueNoise as a state machine: the first cell is placed, then    *)
(* for each rank the cells are scanned for the lowest energy among the     *)
(* unplaced ones and the best one is placed, then the ranks become         *)
(* thresholds.  bestEnergy is None for Infinity.                           *)
(***************************************************************************)
InitGenerate ==
  /\ noise = [pc |-> "called"]
  /\ resolving = ResolvingIdle
  /\ render = RenderIdle
  /\ effect = EffectIdle
  /\ api = [fn |-> "none"]

\* The allocations, the first placement and the entry of the rank loop
GenerateStart ==
  /\ noise.pc = "called"
  /\ LET first == (33 % BN_SIZE) * BN_SIZE + (33 % BN_SIZE)
     IN  noise' = [pc |-> IF 1 < BN_N THEN "scan" ELSE "threshold",
                   texture |-> [c \in 1..BN_N |-> 0],
                   placed |-> [c \in 1..BN_N |-> IF c = first + 1 THEN 1 ELSE 0],
                   energy |-> addInfluence(Array([c \in 1..BN_N |-> 0]), first),
                   order |-> <<first>>,
                   rank |-> IF 1 < BN_N THEN 1 ELSE 0,
                   i |-> 0, bestIdx |-> 0, bestEnergy |-> None]
  /\ UNCHANGED << resolving, render, effect, api >>

\* A scan that lets a later cell of equal energy replace the best one
ScanStep_LastOnTies ==
  /\ noise.pc = "scan"
  /\ noise.i < BN_N
  /\ LET i == noise.i
         better == /\ noise.placed[i + 1] = 0
                   /\ (noise.bestEnergy = None \/ noise.energy[i + 1] <= noise.bestEnergy[1])
     IN  noise' = [noise EXCEPT
                     !.i = i + 1,
                     !.bestIdx = IF better THEN i ELSE @,
                     !.bestEnergy = IF better THEN Some(noise.energy[i + 1]) ELSE @]
  /\ UNCHANGED << resolving, render, effect, api >>

\* One iteration of  for (let i = 0; i < BN_N; i++)
ScanStep ==
  /\ noise.pc = "scan"
  /\ noise.i < BN_N
  /\ LET i == noise.i
         better == /\ noise.placed[i + 1] = 0
                   /\ (noise.bestEnergy = None \/ noise.energy[i + 1] < noise.bestEnergy[1])
     IN  noise' = [noise EXCEPT
                     !.i = i + 1,
                     !.bestIdx = IF better THEN i ELSE @,
                     !.bestEnergy = IF better THEN Some(noise.energy[i + 1]) ELSE @]
  /\ UNCHANGED << resolving, render, effect, api >>

\* The end of the rank's iteration: the best cell is placed
PlaceBest ==
  /\ noise.pc = "scan"
  /\ noise.i = BN_N
  /\ LET more == noise.rank + 1 < BN_N
     IN  noise' = [noise EXCEPT
                     !.placed = [@ EXCEPT ![noise.bestIdx + 1] = 1],
                     !.order = Append(@, noise.bestIdx),
                     !.energy = addInfluence(@, noise.bestIdx),
                     !.rank = IF more THEN @ + 1 ELSE 0,
                     !.pc = IF more THEN "scan" ELSE "threshold",
                     !.i = 0, !.bestIdx = 0, !.bestEnergy = None]
  /\ UNCHANGED << resolving, render, effect, api >>

\* One iteration of the rank-to-threshold loop, and the return after the last
AssignThreshold ==
  /\ noise.pc = "threshold"
  /\ noise' = [noise EXCEPT
                  !.texture = [@ EXCEPT ![noise.order[noise.rank + 1] + 1] =
                                 (noise.rank * 255 * 2 + (BN_N - 1)) \div (2 * (BN_N - 1))],
                  !.rank = @ + 1,
                  !.pc = IF noise.rank + 1 < BN_N THEN "threshold" ELSE "returned"]
  /\ UNCHANGED << resolving, render, effect, api >>

NextGenerate == GenerateStart \/ ScanStep \/ PlaceBest \/ AssignThreshold

\* The call runs on one thread and no step of it waits
SpecGenerate == InitGenerate /\ [][NextGenerate]_vars /\ WF_vars(NextGenerate)

Generating == noise.pc \in {"scan", "threshold", "returned"}
Unplaced == {c \in 0..(BN_N - 1) : \A r \in 1..Len(noise.order) : noise.order[r] # c}

\* Every placement so far is of a different cell, and placed marks them
PlacedOnce ==
  /\ \A r, q \in 1..Len(noise.order) : noise.order[r] = noise.order[q] => r = q
  /\ \A c \in 0..(BN_N - 1) : (noise.placed[c + 1] = 1) <=> (c \notin Unplaced)
  /\ noise.order[1] = (33 % BN_SIZE) * BN_SIZE + (33 % BN_SIZE)

\* The cell a placement step places is unplaced and has the lowest energy of
\* the unplaced cells, the lowest index among those
PlacesLargestVoid ==
  (noise.pc = "scan" /\ noise.i = BN_N) =>
    LET cell == noise'.order[Len(noise'.order)]
    IN  /\ Len(noise'.order) = Len(noise.order) + 1
        /\ cell \in Unplaced
        /\ \A c \in Unplaced :
             \/ noise.energy[cell + 1] < noise.energy[c + 1]
             \/ (noise.energy[cell + 1] = noise.energy[c + 1] /\ cell <= c)
        /\ \A c \in 1..BN_N :
             noise'.energy[c] = noise.energy[c] + InfluenceOn(cell, c - 1, 0 - RADIUS)

\* The call returned a texture in which the cell placed at rank r holds
\* round(r / (N - 1) * 255)
ThresholdsByRank ==
  /\ noise.pc = "returned"
  /\ Len(noise.order) = BN_N
  /\ Unplaced = {}
  /\ \A r \in 0..(BN_N - 1) :
       LET held == noise.texture[noise.order[r + 1] + 1]
       IN  /\ 2 * (BN_N - 1) * held <= 2 * r * 255 + (BN_N - 1)
           /\ 2 * (BN_N - 1) * held > 2 * r * 255 - (BN_N - 1)
  /\ noise.texture[noise.order[1] + 1] = 0
  /\ noise.texture[noise.order[BN_N] + 1] = 255
  /\ noise.texture = generateBlueNoise

GlObjects ==
  {"vertexShader", "fragmentShader", "program", "positionBuffer", "blueNoiseTexture"}

\* C24: when renderBackgroundToCanvasWebGL has returned, true or false,
\* every GL object it created (vertex shader, fragment shader, program,
\* position buffer, blue-noise texture) has been deleted; it deletes nothing
\* it did not create.
C24_GlObjectsDeleted ==
  effect.pc # "unused" =>
    /\ effect.trace.created \subseteq GlObjects
    /\ effect.trace.deleted \subseteq effect.trace.created
    /\ Cardinality(effect.trace.created) = effect.trace.objects
    /\ effect.webglResult # None => effect.trace.deleted = effect.trace.created
    /\ effect.webglResult = Some(TRUE) => effect.trace.created = GlObjects

\* C24 witness: the call returned false because the attribute location was
\* missing, after creating both shaders, the program and the position
\* buffer.
C24_Witness ==
  /\ effect.pc = "webgl-returned"
  /\ effect.webglResult = Some(FALSE)
  /\ effect.trace.failure = "no-attribute"
  /\ effect.trace.created = GlObjects \ {"blueNoiseTexture"}
  /\ effect.trace.deleted = effect.trace.created

\* C25: when renderBackgroundToCanvasWebGL has returned false it has
\* performed no clearRect and no drawImage on the target canvas, whose
\* pixels are as before the call until the CPU renderer draws.
C25_FalseLeavesTargetUntouched ==
  effect.webglResult = Some(FALSE) =>
    /\ effect.trace.targetOps = <<>>
    /\ effect.trace.draws = 0
    /\ effect.pc \in {"webgl-returned", "cpu"} => effect.image = None

\* C25 witness: the call returned false at its last exit, the texture
\* request, and the effect is about to invoke the CPU renderer.
C25_Witness ==
  /\ effect.pc = "cpu"
  /\ effect.webglResult = Some(FALSE)
  /\ effect.trace.failure = "no-texture"
  /\ effect.trace.packed
  /\ effect.trace.targetOps = <<>>
  /\ effect.image = None

(***************************************************************************)
(* The accumulated color across the layers of a pixel.                     *)
(***************************************************************************)
InUnit(v) == 0 <= v /\ v <= ONE
AccumulatedInUnit ==
  /\ InUnit(render.accumulated.r)
  /\ InUnit(render.accumulated.g)
  /\ InUnit(render.accumulated.b)
  /\ InUnit(render.accumulated.a)

\* One more layer of the same pixel has been composited
NextLayerOfPixel ==
  /\ AtPixel
  /\ render'.phase = "pixel"
  /\ render'.px = render.px /\ render'.py = render.py
  /\ render'.layerIndex = render.layerIndex + 1

\* C26: at every pixel, after compositing any number of layers with any
\* blend modes, the accumulated r, g, b and a are within [0,1]; the
\* accumulated alpha never decreases from one layer to the next, so it is
\* at least the base color's alpha.
C26_AccumulatedBounded ==
  /\ [](AtPixel => /\ AccumulatedInUnit
                   /\ render.accumulated.a >= render.resolved.baseColor.a)
  /\ [][NextLayerOfPixel => render'.accumulated.a >= render.accumulated.a]_vars

\* C26 witness: over a translucent base two layers with different blend
\* modes were composited, and each one raised the accumulated alpha.
C26_Witness ==
  /\ AtPixel
  /\ render.layerIndex = 3
  /\ render.resolved.layers[1].blendMode # render.resolved.layers[2].blendMode
  /\ render.resolved.layers[2].blendMode # "normal"
  /\ render.resolved.baseColor.a < FoldLayers(1).a
  /\ FoldLayers(1).a < render.accumulated.a

(***************************************************************************)
(* The exponent of a layer's progress on the two paths.                    *)
(***************************************************************************)
Packed == effect.trace.uniforms # None
Uniforms == effect.trace.uniforms[1]
UnitSamples == {0, 1, ONE \div 4, ONE \div 2, ONE}

\* C27: for every easing of a linear layer and every falloff of a radial
\* layer, unspecified, zero and negative ones included, the power the shader
\* takes of the clamped progress with the packed exponent is the one
\* applyExponent takes on the CPU.
C27_GpuExponentIsCpuExponent ==
  Packed =>
    \A i \in 1..Len(EffectLayers) : \A v \in UnitSamples :
      /\ EffectLayers[i].type = "linear" =>
           shaderLinearT(v, Uniforms.layerLinear3[(i - 1) * 4 + 1])
             = applyExponent(clamp(v, 0, ONE), EffectLayers[i].easing)
      /\ EffectLayers[i].type = "radial" =>
           shaderRadialT(v, Uniforms.layerRadial2[(i - 1) * 4 + 2])
             = applyExponent(v, EffectLayers[i].falloff)

(***************************************************************************)
(* Unparseable colors on the WebGL entry points.                           *)
(***************************************************************************)
ColorErrors == {"Unsupported color format", "non-hex characters"}
WebGLCallLeft == effect.webglCalls > 0 /\ effect.pc # "webgl-check"
OverCapacity == TooManyLayers \/ TooManyStops

\* C28: canRenderBackgroundWithWebGL and renderBackgroundToCanvasWebGL
\* resolve the configuration before they check capacity: when a color of the
\* configuration cannot be parsed they raise the color error, whatever the
\* layer and stop counts, and neither answers nor returns false nor starts
\* any GPU work.
C28_ColorErrorBeforeCapacity ==
  SomeColorUnparseable(effect.parsedArgs) =>
    /\ effect.support # None =>
         effect.support[1].raised /\ effect.support[1].error \in ColorErrors
    /\ WebGLCallLeft =>
         /\ effect.pc = "thrown"
         /\ effect.thrown # None /\ effect.thrown[1] \in ColorErrors
         /\ effect.webglResult = None
         /\ effect.trace = NoTrace

\* C28 witness: the renderer raised on a configuration of eight layers, the
\* first with a stop color that is not hexadecimal.
C28_Witness ==
  /\ effect.pc = "thrown"
  /\ effect.webglCalls > 0
  /\ Len(EffectLayers) = 8
  /\ effect.thrown = Some("non-hex characters")
  /\ effect.cpuCalls = <<>>

(***************************************************************************)
(* The stops in the packed uniforms.                                       *)
(***************************************************************************)
PackedFrom == resolveBackgroundArgs(effect.parsedArgs)
PackedStopColors(stopSlot) ==
  CASE stopSlot = 0 -> Uniforms.stopColor0
    [] stopSlot = 1 -> Uniforms.stopColor1
    [] stopSlot = 2 -> Uniforms.stopColor2
    [] stopSlot = 3 -> Uniforms.stopColor3

\* Slot stopSlot of layer i (from 1) holds the given stop
SlotHolds(i, stopSlot, stop) ==
  /\ Uniforms.stopPos[(i - 1) * 4 + stopSlot] = stop.position
  /\ PackedStopColors(stopSlot)[(i - 1) * 4] = stop.color.r
  /\ PackedStopColors(stopSlot)[(i - 1) * 4 + 1] = stop.color.g
  /\ PackedStopColors(stopSlot)[(i - 1) * 4 + 2] = stop.color.b
  /\ PackedStopColors(stopSlot)[(i - 1) * 4 + 3] = stop.color.a

\* C29: packLayerUniforms runs only after the capacity check has passed, on
\* at most 6 layers of at most 4 stops each, and every store it makes is at
\* an offset of the arrays of 6 * 4 floats; for each layer with n stops,
\* 1 <= n <= 4, the recorded stop count is n, slots 0..n-1 hold the layer's
\* stops in order and slots n..3 repeat the last stop.
C29_PackedWithinCapacity ==
  Packed =>
    With(PackedFrom, LAMBDA resolved :
      /\ ~resolved.raised
      /\ Len(resolved.layers) <= 6
      /\ \A i \in 1..Len(resolved.layers) : Len(resolved.layers[i].stops) <= 4
      /\ Uniforms.stored \subseteq 0..(6 * 4 - 1)
      /\ \A i \in 1..Len(resolved.layers) :
           LET stops == resolved.layers[i].stops
               n == Len(stops)
           IN  (1 <= n /\ n <= 4) =>
                 /\ Uniforms.layerMeta2[(i - 1) * 4 + 3] = n
                 /\ \A stopSlot \in 0..3 :
                      SlotHolds(i, stopSlot,
                                stops[IF stopSlot < n THEN stopSlot + 1 ELSE n]))

\* C29 witness: six layers were packed, the last store at offset 23; one
\* layer has three stops and its fourth slot repeats the third stop, which
\* differs from the second.
C29_Witness ==
  /\ Packed
  /\ 23 \in Uniforms.stored
  /\ With(PackedFrom, LAMBDA resolved :
        /\ Len(resolved.layers) = 6
        /\ \E i \in 1..6 :
             /\ Len(resolved.layers[i].stops) = 3
             /\ Uniforms.stopPos[(i - 1) * 4 + 3] = Uniforms.stopPos[(i - 1) * 4 + 2]
             /\ Uniforms.stopPos[(i - 1) * 4 + 2] # Uniforms.stopPos[(i - 1) * 4 + 1])

(***************************************************************************)
(* The texture indices of getDitherValue.  The texture of the model has    *)
(* BN_SIZE cells a side, BN_N in all, where the program's has 64 and 4096. *)
(***************************************************************************)
\* The coordinates asked about: around zero, and the ends of the 32-bit range
DitherCoords ==
  ((0 - MaxNoiseCoord - BN_SIZE)..(MaxNoiseCoord + BN_SIZE))
    \cup {0 - 2147483647 - 1, 0 - 2147483647, 2147483647 - 37 - BN_SIZE}
BlueValue(x, y, amp) ==
  getDitherValue(x, y, "blue-noise", amp, noise.cache, noise.runs).value

\* C30: at every pair of integer coordinates, negative ones included, the
\* two texture indices of getDitherValue in blue-noise mode are indices of
\* the texture, and the value is periodic in x and in y with the side of
\* the texture as period.
C30_IndicesInTexture ==
  \A x \in DitherCoords, y \in DitherCoords :
    /\ firstIndex(x, y) \in 0..(BN_N - 1)
    /\ secondIndex(x, y) \in 0..(BN_N - 1)
    /\ \A amp \in {LSB, 4 * LSB} :
         /\ BlueValue(x + BN_SIZE, y, amp) = BlueValue(x, y, amp)
         /\ BlueValue(x, y + BN_SIZE, amp) = BlueValue(x, y, amp)

\* C30 witness: after a call in blue-noise mode, the value at (-1, -1) is
\* the value one period away and differs from the value at (0, 0), and the
\* texture's last cell is the first sample of (-1, -1).
C30_Witness ==
  /\ noise.needed
  /\ noise.cache # None
  /\ firstIndex(0 - 1, 0 - 1) = BN_N - 1
  /\ BlueValue(0 - 1, 0 - 1, LSB) = BlueValue(BN_SIZE - 1, BN_SIZE - 1, LSB)
  /\ BlueValue(0 - 1, 0 - 1, LSB) # BlueValue(0, 0, LSB)
====
